---- MODULE Spec2Model ----
(***************************************************************************)
(* Payout engine: the run orchestrator (app/engine/orchestrator.py) with   *)
(* the eligibility gate, the rail selector, the retry wrapper and the      *)
(* audit trail it drives, over a transactional store reached through one   *)
(* session per execute_run invocation.                                     *)
(*                                                                         *)
(* Amounts are integers in cents.  None is the string "None" for the       *)
(* nullable string columns and <<>> for a missing payment_order_id.        *)
(***************************************************************************)
EXTENDS Integers, Sequences, FiniteSets, TLC

\* Number of execute_run invocations a behaviour may hold.
MaxRuns == 3

Runs == 1..MaxRuns

None == "None"
NoOrder == <<>>

-----------------------------------------------------------------------------
(* Enumerations (app/models/enums.py) *)

PayoutStatus == {"pending", "eligible", "processing", "completed", "failed", "skipped"}

RunStatus == {"running", "completed", "failed"}

SkipReason == {"invalid_method", "wrong_status", "invalid_amount",
               "missing_external_account", "existing_payment_order",
               "missing_country"}

-----------------------------------------------------------------------------
(* Reference data: the stored recipients and liquidation events.  The rows *)
(* follow the fixtures of tests/conftest.py: two eligible recipients (one  *)
(* domestic, one cross-border) and one without a bank account.             *)

Investors ==
    [ INV001 |-> [name |-> "John Smith", country |-> "US", payment_method |-> "ACH",
                  external_account_id |-> "ext_us_001", has_aba_routing |-> 0],
      INV010 |-> [name |-> "Hans Mueller", country |-> "DE", payment_method |-> "ACH",
                  external_account_id |-> "ext_de_001", has_aba_routing |-> 0],
      INV060 |-> [name |-> "Ghost Investor", country |-> "US", payment_method |-> "ACH",
                  external_account_id |-> None, has_aba_routing |-> 0] ]

InvestorIds == DOMAIN Investors

\* total_amount in cents, payout_date
LiquidationEvents ==
    [ LIQ001 |-> [name |-> "Test Liquidation", total_amount |-> 80000000,
                  payout_date |-> "2024-12-15"],
      LIQ002 |-> [name |-> "Second Liquidation", total_amount |-> 30000000,
                  payout_date |-> "2025-01-15"] ]

EventIds == DOMAIN LiquidationEvents

\* The identifiers a caller passes to execute_run in the runs on one event:
\* a stored event and one that names no stored event.
RequestedEventIds == {"LIQ001", "LIQ404"}

-----------------------------------------------------------------------------
(* Eligibility gate (app/engine/eligibility.py) *)

ALLOWED_METHODS == {"ACH", "Wire"}

Falsy(s) == s = None \/ s = ""

EligibilityResult(eligible, skip_reason, message) ==
    [eligible |-> eligible, skip_reason |-> skip_reason, message |-> message]

check_eligibility_no_dedup(payment_method, amount, external_account_id, country, existing_payment_order_id) ==
    IF Falsy(payment_method) \/ payment_method \notin ALLOWED_METHODS
    THEN EligibilityResult(FALSE, "invalid_method", "Invalid payment method")
    ELSE IF amount <= 0
    THEN EligibilityResult(FALSE, "invalid_amount", "Invalid amount")
    ELSE IF Falsy(external_account_id)
    THEN EligibilityResult(FALSE, "missing_external_account", "No external bank account on file")
    ELSE IF Falsy(country)
    THEN EligibilityResult(FALSE, "missing_country", "Missing country code")
    ELSE EligibilityResult(TRUE, None, "")

check_eligibility_method_first(payment_method, amount, external_account_id, country, existing_payment_order_id) ==
    IF Falsy(payment_method) \/ payment_method \notin ALLOWED_METHODS
    THEN EligibilityResult(FALSE, "invalid_method", "Invalid payment method")
    ELSE IF existing_payment_order_id # NoOrder
    THEN EligibilityResult(FALSE, "existing_payment_order", "Payment order already exists")
    ELSE IF amount <= 0
    THEN EligibilityResult(FALSE, "invalid_amount", "Invalid amount")
    ELSE IF Falsy(external_account_id)
    THEN EligibilityResult(FALSE, "missing_external_account", "No external bank account on file")
    ELSE IF Falsy(country)
    THEN EligibilityResult(FALSE, "missing_country", "Missing country code")
    ELSE EligibilityResult(TRUE, None, "")

\* The amount is a number: the payouts.amount column is NOT NULL, so the
\* "amount is None" arm of line 71 is not taken for a stored payout.
check_eligibility(payment_method, amount, external_account_id, country, existing_payment_order_id) ==
    IF existing_payment_order_id # NoOrder
    THEN EligibilityResult(FALSE, "existing_payment_order", "Payment order already exists")
    ELSE IF Falsy(payment_method) \/ payment_method \notin ALLOWED_METHODS
    THEN EligibilityResult(FALSE, "invalid_method", "Invalid payment method")
    ELSE IF amount <= 0
    THEN EligibilityResult(FALSE, "invalid_amount", "Invalid amount")
    ELSE IF Falsy(external_account_id)
    THEN EligibilityResult(FALSE, "missing_external_account", "No external bank account on file")
    ELSE IF Falsy(country)
    THEN EligibilityResult(FALSE, "missing_country", "Missing country code")
    ELSE EligibilityResult(TRUE, None, "")

-----------------------------------------------------------------------------
(* Rail selector (app/routing/rail_selector.py, country_rails.py) *)

Rail(subtype, currency, purpose) ==
    [subtype |-> subtype, currency |-> currency, purpose |-> purpose]

SepaCountries == {"DE", "FR", "ES", "NL", "IT", "AT", "BE", "IE", "PT", "FI", "GR",
                  "LU", "CY", "MT", "SK", "LT", "SI", "EE", "LV"}

\* The entries of GLOBAL_ACH_MAP outside the SEPA zone: country, subtype,
\* currency, purpose.
OtherRails ==
    { <<"GB", "bacs", "GBP", None>>, <<"CA", "eft", "CAD", "250">>,
      <<"CH", "sic", "CHF", None>>, <<"PL", "pl_elixir", "PLN", None>>,
      <<"AU", "au_becs", "AUD", None>>, <<"SG", "sg_giro", "SGD", None>>,
      <<"IN", "neft", "INR", None>>, <<"JP", "zengin", "JPY", None>>,
      <<"DK", "dk_nets", "DKK", None>>, <<"NZ", "nz_becs", "NZD", None>>,
      <<"NO", "nics", "NOK", None>>, <<"HK", "chats", "HKD", None>>,
      <<"SE", "se_bankgirot", "SEK", None>>, <<"RO", "ro_sent", "RON", None>>,
      <<"MX", "mx_ccen", "MXN", None>>, <<"IL", "masav", "ILS", None>>,
      <<"ID", "sknbi", "IDR", None>>, <<"HU", "hu_ics", "HUF", None>> }

GLOBAL_ACH_MAP ==
    [c \in SepaCountries \cup {row[1] : row \in OtherRails} |->
        IF c \in SepaCountries
        THEN Rail("sepa", "EUR", None)
        ELSE LET row == CHOOSE x \in OtherRails : x[1] = c IN Rail(row[2], row[3], row[4])]

RailDecision(payment_type, subtype, currency, purpose, fx_indicator, label) ==
    [payment_type |-> payment_type, subtype |-> subtype, currency |-> currency,
     purpose |-> purpose, fx_indicator |-> fx_indicator, label |-> label]

\* Line 59, (country_code or "").strip().upper(), on the codes that are
\* held in lower case or with blanks; a code held in upper case without
\* blanks is left as it is.
RawCountryCodes ==
    ("us" :> "US") @@ ("de" :> "DE") @@ (" GB " :> "GB") @@ ("zz" :> "ZZ") @@ ("  " :> "")

strip_upper(s) == IF s \in DOMAIN RawCountryCodes THEN RawCountryCodes[s] ELSE s

select_rail_country_first(country_code, payment_method, has_aba_routing) ==
    LET country == strip_upper(IF Falsy(country_code) THEN "" ELSE country_code) IN
    IF country = "US"
    THEN RailDecision("ach", "CCD", "USD", None, None, <<"ACH (US)">>)
    ELSE IF country \in DOMAIN GLOBAL_ACH_MAP
    THEN LET cfg == GLOBAL_ACH_MAP[country] IN
         RailDecision("cross_border", cfg.subtype, cfg.currency, cfg.purpose,
                      "fixed_to_variable", <<"Cross-Border", cfg.subtype, cfg.currency>>)
    ELSE IF has_aba_routing
    THEN RailDecision("ach", "CCD", "USD", None, None, <<"ACH (US) - foreign investor with US bank", country>>)
    ELSE RailDecision("wire", None, "USD", None, None,
                      <<"Wire (International)", IF country = "" THEN "unknown" ELSE country>>)

select_rail_method_binding(country_code, payment_method, has_aba_routing) ==
    LET country == strip_upper(IF Falsy(country_code) THEN "" ELSE country_code) IN
    IF has_aba_routing /\ country # "US"
    THEN RailDecision("ach", "CCD", "USD", None, None, <<"ACH (US) - foreign investor with US bank", country>>)
    ELSE IF country = "US" /\ payment_method # "Wire"
    THEN RailDecision("ach", "CCD", "USD", None, None, <<"ACH (US)">>)
    ELSE IF country = "US"
    THEN RailDecision("wire", None, "USD", None, None, <<"Wire (US)">>)
    ELSE IF country \in DOMAIN GLOBAL_ACH_MAP
    THEN LET cfg == GLOBAL_ACH_MAP[country] IN
         RailDecision("cross_border", cfg.subtype, cfg.currency, cfg.purpose,
                      "fixed_to_variable", <<"Cross-Border", cfg.subtype, cfg.currency>>)
    ELSE RailDecision("wire", None, "USD", None, None,
                      <<"Wire (International)", IF country = "" THEN "unknown" ELSE country>>)

select_rail_paying_usd(country_code, payment_method, has_aba_routing) ==
    LET country == strip_upper(IF Falsy(country_code) THEN "" ELSE country_code) IN
    IF has_aba_routing /\ country # "US"
    THEN RailDecision("ach", "CCD", "USD", None, None, <<"ACH (US) - foreign investor with US bank", country>>)
    ELSE IF country = "US"
    THEN RailDecision("ach", "CCD", "USD", None, None, <<"ACH (US)">>)
    ELSE IF country \in DOMAIN GLOBAL_ACH_MAP
    THEN LET cfg == GLOBAL_ACH_MAP[country] IN
         RailDecision("cross_border", cfg.subtype, "USD", cfg.purpose,
                      "fixed_to_variable", <<"Cross-Border", cfg.subtype, "USD">>)
    ELSE RailDecision("wire", None, "USD", None, None,
                      <<"Wire (International)", IF country = "" THEN "unknown" ELSE country>>)

select_rail_absent_as_domestic(country_code, payment_method, has_aba_routing) ==
    LET country == strip_upper(IF Falsy(country_code) THEN "" ELSE country_code) IN
    IF has_aba_routing /\ country # "US"
    THEN RailDecision("ach", "CCD", "USD", None, None, <<"ACH (US) - foreign investor with US bank", country>>)
    ELSE IF country = "US"
    THEN RailDecision("ach", "CCD", "USD", None, None, <<"ACH (US)">>)
    ELSE IF country \in DOMAIN GLOBAL_ACH_MAP
    THEN LET cfg == GLOBAL_ACH_MAP[country] IN
         RailDecision("cross_border", cfg.subtype, cfg.currency, cfg.purpose,
                      "fixed_to_variable", <<"Cross-Border", cfg.subtype, cfg.currency>>)
    ELSE IF country = ""
    THEN RailDecision("ach", "CCD", "USD", None, None, <<"ACH (US)">>)
    ELSE RailDecision("wire", None, "USD", None, None, <<"Wire (International)", country>>)

select_rail(country_code, payment_method, has_aba_routing) ==
    LET country == strip_upper(IF Falsy(country_code) THEN "" ELSE country_code) IN
    IF has_aba_routing /\ country # "US"
    THEN RailDecision("ach", "CCD", "USD", None, None, <<"ACH (US) - foreign investor with US bank", country>>)
    ELSE IF country = "US"
    THEN RailDecision("ach", "CCD", "USD", None, None, <<"ACH (US)">>)
    ELSE IF country \in DOMAIN GLOBAL_ACH_MAP
    THEN LET cfg == GLOBAL_ACH_MAP[country] IN
         RailDecision("cross_border", cfg.subtype, cfg.currency, cfg.purpose,
                      "fixed_to_variable", <<"Cross-Border", cfg.subtype, cfg.currency>>)
    ELSE RailDecision("wire", None, "USD", None, None,
                      <<"Wire (International)", IF country = "" THEN "unknown" ELSE country>>)

-----------------------------------------------------------------------------
(* Audit trail helpers (app/audit/logger.py) *)

AuditLog(run_id, payout_id, action) ==
    [run_id |-> run_id, payout_id |-> payout_id, action |-> action]

log_event_without_payout_id(pending, action, run_id, payout_id) ==
    Append(pending, AuditLog(run_id, <<>>, action))

log_event_overwriting(pending, action, run_id, payout_id) ==
    IF pending = <<>> THEN <<AuditLog(run_id, payout_id, action)>>
    ELSE [pending EXCEPT ![Len(pending)] = AuditLog(run_id, payout_id, action)]

\* session.add(entry): the entry joins the session's pending audit rows.
log_event(pending, action, run_id, payout_id) ==
    Append(pending, AuditLog(run_id, payout_id, action))

\* Notes are the sequence of messages; the timestamp prefix is left out.
\* <<>> is the absent (or empty) notes column.
append_note(existing_notes, message) ==
    IF existing_notes = <<>> THEN <<message>> ELSE existing_notes \o <<message>>

-----------------------------------------------------------------------------
(* Retry wrapper (app/engine/retry.py) *)

MAX_RETRIES == 5
BASE_DELAY == 1
MAX_DELAY == 30

Min(a, b) == IF a <= b THEN a ELSE b

\* retry_after of an error that carries no wait hint (None).
NoHint == -1

\* The values retry_after of a RateLimitError may hold: no hint, or a hint
\* of zero, one or 45 time units.
RetryAfterHints == {NoHint, 0, 1, 45}

NoError == [cls |-> "NoError", status_code |-> 0, retriable |-> FALSE, retry_after |-> NoHint]

ProviderError(status_code, retriable) ==
    [cls |-> "ProviderError", status_code |-> status_code, retriable |-> retriable,
     retry_after |-> NoHint]

RateLimitError(retry_after) ==
    [cls |-> "RateLimitError", status_code |-> 429, retriable |-> TRUE,
     retry_after |-> retry_after]

PermanentError(status_code) ==
    [cls |-> "PermanentError", status_code |-> status_code, retriable |-> FALSE,
     retry_after |-> NoHint]

\* An exception that is no ProviderError (a bug in the provider adapter, a
\* network library error).
OtherException ==
    [cls |-> "Exception", status_code |-> 0, retriable |-> FALSE, retry_after |-> NoHint]

\* isinstance(e, ProviderError), isinstance(e, PermanentError)
IsProviderError(e) == e.cls \in {"ProviderError", "RateLimitError", "PermanentError"}
IsPermanentError(e) == e.cls = "PermanentError"

\* What one invocation of provider.create_payment_order may do: return a
\* response ("ok") or raise one of these.
ProviderFailures ==
    {RateLimitError(h) : h \in RetryAfterHints}
      \cup {ProviderError(503, TRUE), ProviderError(500, FALSE)}
      \cup {PermanentError(400), OtherException}

with_retry_without_limit(attempt, e) ==
    IF ~IsProviderError(e) THEN "raise"
    ELSE IF ~e.retriable THEN "raise"
    ELSE "sleep"

with_retry_one_retry_less(attempt, e) ==
    IF ~IsProviderError(e) THEN "raise"
    ELSE IF ~e.retriable THEN "raise"
    ELSE IF attempt < MAX_RETRIES - 1 THEN "sleep"
    ELSE "raise"

with_retry_ignoring_retriable(attempt, e) ==
    IF ~IsProviderError(e) THEN "raise"
    ELSE IF attempt < MAX_RETRIES THEN "sleep"
    ELSE "raise"

with_retry_one_retry_more(attempt, e) ==
    IF ~IsProviderError(e) THEN "raise"
    ELSE IF ~e.retriable THEN "raise"
    ELSE IF attempt <= MAX_RETRIES THEN "sleep"
    ELSE "raise"

\* with_retry after invocation number attempt + 1 raised e: "raise" lets e
\* go to the caller, "sleep" waits and invokes again.
with_retry_on_error(attempt, e) ==
    IF ~IsProviderError(e) THEN "raise"
    ELSE IF ~e.retriable THEN "raise"
    ELSE IF attempt < MAX_RETRIES THEN "sleep"
    ELSE "raise"

\* Lines 79-81: the computed delay, or the hint when "e.retry_after" is
\* true, which it is for a hint that is neither None nor zero.
sleep_for(delay, e) ==
    IF e.cls = "RateLimitError" /\ e.retry_after # NoHint /\ e.retry_after # 0
    THEN Min(e.retry_after, MAX_DELAY)
    ELSE Min(delay, MAX_DELAY)

next_delay_by_one(delay) == Min(delay + 1, MAX_DELAY)

\* Line 91.
next_delay(delay) == Min(delay * 2, MAX_DELAY)

-----------------------------------------------------------------------------
(* Rows (app/models/payout.py) *)

PayoutRun(liquidation_event_id) ==
    [liquidation_event_id |-> liquidation_event_id, status |-> "running",
     created_count |-> 0, skipped_count |-> 0, failed_count |-> 0,
     skip_breakdown |-> {}, completed_at |-> FALSE]

\* The payout's id is the pair it is unique for.
PayoutId(event_id, investor_id) == <<event_id, investor_id>>

NoPayoutId == <<>>

RoundDivDown(x, n) == x \div n

\* round(x / n, 2) on an amount in cents: the quotient rounded to a whole
\* cent, a tie going to the even cent.
RoundDiv(x, n) ==
    LET q == x \div n
        rem == x % n
    IN  IF 2 * rem > n THEN q + 1
        ELSE IF 2 * rem < n THEN q
        ELSE IF q % 2 = 0 THEN q ELSE q + 1

\* _cents(amount): the amount, held in cents, as an integer of cents.
Cents(amount) == amount

\* The Payout of lines 113-126 for an investor whose record is inv_row.
NewPayoutOf(run_id, event_id, inv, inv_row, n_investors) ==
    [run_id |-> run_id, liquidation_event_id |-> event_id, investor_id |-> inv,
     investor_name |-> inv_row.name,
     amount |-> RoundDiv(LiquidationEvents[event_id].total_amount,
                         IF n_investors > 1 THEN n_investors ELSE 1),
     currency |-> "USD", country |-> inv_row.country,
     payment_method |-> inv_row.payment_method,
     has_aba_routing |-> inv_row.has_aba_routing,
     external_account_id |-> inv_row.external_account_id,
     rail |-> None, rail_subtype |-> None, rail_currency |-> None,
     fx_indicator |-> None, payment_order_type |-> <<>>,
     status |-> "pending", skip_reason |-> None, payment_order_id |-> NoOrder,
     notes |-> <<>>]

\* The Payout for an investor whose record is as it was stored.
NewPayout(run_id, event_id, inv, n_investors) ==
    NewPayoutOf(run_id, event_id, inv, Investors[inv], n_investors)

-----------------------------------------------------------------------------
(* State *)

VARIABLES
    db,      \* the committed rows: runs, payouts, audit log, investors (with
             \* the investors whose record was changed after it was stored)
    sess,    \* per execute_run invocation: its session and its local variables
    orders   \* the payment orders the provider has created

vars == <<db, sess, orders>>

EmptyCounter == [x \in {} |-> 0]

\* An invocation that has not begun, and the locals every invocation starts with.
\* invocations counts the calls with_retry has made of the operation for the
\* payout at hand.
IdleSession ==
    [pc |-> "idle", event |-> None, run |-> PayoutRun(None),
     loaded |-> [x \in {} |-> 0], payouts |-> [x \in {} |-> 0],
     list |-> <<>>, idx |-> 0,
     successes |-> 0, skipped |-> 0, failures |-> 0, skip_counts |-> EmptyCounter,
     attempt |-> 0, delay |-> BASE_DELAY, last_error |-> NoError, sleep_for |-> 0,
     invocations |-> 0,
     audit |-> <<>>, written |-> {}]

\* The investors table in the order the fixtures insert its rows; the
\* SELECT of line 100 (no ORDER BY) returns the rows as the table holds them.
InvestorRows == <<"INV001", "INV010", "INV060">>

Init ==
    /\ db = [runs |-> [x \in {} |-> 0], payouts |-> [x \in {} |-> 0], audit |-> <<>>,
             investors |-> InvestorRows, changed |-> {}]
    /\ sess = [r \in Runs |-> IdleSession]
    /\ orders = {}

Active(r) == sess[r].pc \notin {"idle", "done", "aborted", "crashed"}

\* The record of an investor after a change made from outside the engine:
\* the investor has a bank account on file.
ChangedInvestor(inv_row) == [inv_row EXCEPT !.external_account_id = "ext_new_001"]

\* The investors row the SELECT of line 100 returns for an investor.
InvestorRow(inv) == IF inv \in db.changed THEN ChangedInvestor(Investors[inv]) ELSE Investors[inv]

-----------------------------------------------------------------------------
(* The session: reads see the committed rows, writes stay in the session's *)
(* transaction until session.commit(), which publishes them as one unit.   *)

\* The UPDATE of a stored row sets the columns this session changed since
\* it loaded the row.
MergeRow(stored, loaded, mine) ==
    [f \in DOMAIN mine |-> IF mine[f] # loaded[f] THEN mine[f] ELSE stored[f]]

CommitPayouts(s) ==
    LET keys == {PayoutId(s.event, i) : i \in DOMAIN s.payouts} IN
    [k \in DOMAIN db.payouts \cup keys |->
        IF k \notin keys THEN db.payouts[k]
        ELSE IF k \in DOMAIN db.payouts /\ k[2] \in DOMAIN s.loaded
             THEN MergeRow(db.payouts[k], s.loaded[k[2]], s.payouts[k[2]])
             ELSE s.payouts[k[2]]]

CommitOverEarlierRuns(r, s) ==
    [runs |-> [q \in DOMAIN db.runs \cup {r} |->
                  IF q = r \/ db.runs[q].liquidation_event_id = s.run.liquidation_event_id
                  THEN s.run ELSE db.runs[q]],
     payouts |-> CommitPayouts(s),
     audit |-> db.audit \o s.audit,
     investors |-> db.investors, changed |-> db.changed]

\* session.commit() of invocation r whose session is s.
Commit(r, s) ==
    [runs |-> db.runs @@ (r :> s.run),
     payouts |-> CommitPayouts(s),
     audit |-> db.audit \o s.audit,
     investors |-> db.investors, changed |-> db.changed]

\* The rows of the event that another open transaction has written: a write
\* to one of them waits for that transaction to end.
LockedByOthers(r, event_id) ==
    UNION {sess[q].written : q \in {x \in Runs : x # r /\ Active(x) /\ sess[x].event = event_id}}

-----------------------------------------------------------------------------
(* execute_run (app/engine/orchestrator.py) *)

StartRunWithoutAudit(r, e) ==
    /\ sess[r].pc = "idle"
    /\ \A q \in Runs : q < r => sess[q].pc # "idle"
    /\ sess' = [sess EXCEPT ![r] =
                  [IdleSession EXCEPT !.pc = "started", !.event = e, !.run = PayoutRun(e)]]
    /\ UNCHANGED <<db, orders>>

\* Lines 69-80: the Run row is added and flushed, "run_started" is logged.
StartRun(r, e) ==
    /\ sess[r].pc = "idle"
    /\ \A q \in Runs : q < r => sess[q].pc # "idle"
    /\ sess' = [sess EXCEPT ![r] =
                  [IdleSession EXCEPT !.pc = "started", !.event = e, !.run = PayoutRun(e),
                                      !.audit = log_event(<<>>, "run_started", r, NoPayoutId)]]
    /\ UNCHANGED <<db, orders>>

fail_run_without_completed_at(s, r) ==
    [s EXCEPT !.run.status = "failed",
              !.audit = log_event(s.audit, "run_failed", r, NoPayoutId)]

\* Lines 86-89: the run is marked failed and "run_failed" is logged.
fail_run(s, r) ==
    [s EXCEPT !.run.status = "failed", !.run.completed_at = TRUE,
              !.audit = log_event(s.audit, "run_failed", r, NoPayoutId)]

\* Lines 82-91: the event is looked up; when it is absent the run fails,
\* is committed and returned.
LoadEvent(r) ==
    LET s == sess[r] IN
    /\ s.pc = "started"
    /\ IF s.event \notin EventIds
       THEN /\ db' = Commit(r, fail_run(s, r))
            /\ sess' = [sess EXCEPT ![r] = [IdleSession EXCEPT !.pc = "done"]]
       ELSE /\ sess' = [sess EXCEPT ![r].pc = "event_loaded"]
            /\ UNCHANGED db
    /\ UNCHANGED orders

LoadPayoutsOfRun(r) ==
    LET s == sess[r]
        have == {i \in InvestorIds : /\ PayoutId(s.event, i) \in DOMAIN db.payouts
                                     /\ db.payouts[PayoutId(s.event, i)].run_id = r}
        existing_payouts == [i \in have |-> db.payouts[PayoutId(s.event, i)]]
    IN
    /\ s.pc = "event_loaded"
    /\ sess' = [sess EXCEPT ![r] = [s EXCEPT !.pc = "payouts_loaded",
                                             !.loaded = existing_payouts,
                                             !.list = db.investors]]
    /\ UNCHANGED <<db, orders>>

LoadPayoutsOfAllEvents(r) ==
    LET s == sess[r]
        have == {i \in InvestorIds : \E e \in EventIds : PayoutId(e, i) \in DOMAIN db.payouts}
        existing_payouts ==
            [i \in have |->
                db.payouts[PayoutId(CHOOSE e \in EventIds : PayoutId(e, i) \in DOMAIN db.payouts, i)]]
    IN
    /\ s.pc = "event_loaded"
    /\ sess' = [sess EXCEPT ![r] = [s EXCEPT !.pc = "payouts_loaded",
                                             !.loaded = existing_payouts,
                                             !.list = db.investors]]
    /\ UNCHANGED <<db, orders>>

\* Lines 93-101: the event's payouts, keyed by investor, and the investors.
LoadPayouts(r) ==
    LET s == sess[r]
        have == {i \in InvestorIds : PayoutId(s.event, i) \in DOMAIN db.payouts}
        existing_payouts == [i \in have |-> db.payouts[PayoutId(s.event, i)]]
    IN
    /\ s.pc = "event_loaded"
    /\ sess' = [sess EXCEPT ![r] = [s EXCEPT !.pc = "payouts_loaded",
                                             !.loaded = existing_payouts,
                                             !.list = db.investors]]
    /\ UNCHANGED <<db, orders>>

attach_always(payout, run_id) == [payout EXCEPT !.run_id = run_id]

attach_never(payout, run_id) == payout

attach_copying_investor(payout, run_id) ==
    [(IF payout.status \notin {"completed", "skipped"}
      THEN [payout EXCEPT !.run_id = run_id] ELSE payout)
        EXCEPT !.external_account_id = InvestorRow(payout.investor_id).external_account_id]

\* Lines 107-110: an existing payout joins this run unless it is completed
\* or skipped.
attach(payout, run_id) ==
    IF payout.status \notin {"completed", "skipped"}
    THEN [payout EXCEPT !.run_id = run_id]
    ELSE payout

\* Lines 103-131: one Payout per investor, the new and the re-attached ones
\* flushed.
EnsurePayouts(r) ==
    LET s == sess[r]
        n == Len(s.list)
        payouts == [i \in {s.list[k] : k \in 1..n} |->
                       IF i \in DOMAIN s.loaded
                       THEN attach(s.loaded[i], r)
                       ELSE NewPayoutOf(r, s.event, i, InvestorRow(i), n)]
        inserted == DOMAIN payouts \ DOMAIN s.loaded
        updated == {i \in DOMAIN s.loaded : payouts[i] # s.loaded[i]}
    IN
    /\ s.pc = "payouts_loaded"
    /\ \A i \in inserted : PayoutId(s.event, i) \notin DOMAIN db.payouts
    /\ (inserted \cup updated) \cap LockedByOthers(r, s.event) = {}
    /\ sess' = [sess EXCEPT ![r] = [s EXCEPT !.pc = "processing", !.payouts = payouts,
                                             !.idx = 1, !.written = inserted \cup updated]]
    /\ UNCHANGED <<db, orders>>

-----------------------------------------------------------------------------
(* _process_single_payout (app/engine/orchestrator.py) *)

\* Lines 148-155 of execute_run: the result of one payout is counted.
tally_counting_reason_twice(s, result, skip_reason) ==
    IF result = "created" THEN [s EXCEPT !.successes = @ + 1]
    ELSE IF result = "skipped"
    THEN [s EXCEPT !.skipped = @ + 1,
                   !.skip_counts = IF skip_reason = None THEN @
                                   ELSE IF skip_reason \in DOMAIN @
                                   THEN [@ EXCEPT ![skip_reason] = @ + 2]
                                   ELSE @ @@ (skip_reason :> 2)]
    ELSE IF result = "failed" THEN [s EXCEPT !.failures = @ + 1]
    ELSE s

tally_without_failed(s, result, skip_reason) ==
    IF result = "created" THEN [s EXCEPT !.successes = @ + 1]
    ELSE IF result = "skipped"
    THEN [s EXCEPT !.skipped = @ + 1,
                   !.skip_counts = IF skip_reason = None THEN @
                                   ELSE IF skip_reason \in DOMAIN @
                                   THEN [@ EXCEPT ![skip_reason] = @ + 1]
                                   ELSE @ @@ (skip_reason :> 1)]
    ELSE s

tally_without_breakdown(s, result, skip_reason) ==
    IF result = "created" THEN [s EXCEPT !.successes = @ + 1]
    ELSE IF result = "skipped" THEN [s EXCEPT !.skipped = @ + 1]
    ELSE IF result = "failed" THEN [s EXCEPT !.failures = @ + 1]
    ELSE s

tally(s, result, skip_reason) ==
    IF result = "created" THEN [s EXCEPT !.successes = @ + 1]
    ELSE IF result = "skipped"
    THEN [s EXCEPT !.skipped = @ + 1,
                   !.skip_counts = IF skip_reason = None THEN @
                                   ELSE IF skip_reason \in DOMAIN @
                                   THEN [@ EXCEPT ![skip_reason] = @ + 1]
                                   ELSE @ @@ (skip_reason :> 1)]
    ELSE IF result = "failed" THEN [s EXCEPT !.failures = @ + 1]
    ELSE s

current_from_the_end(s) == s.list[Len(s.list) + 1 - s.idx]

\* The payout the loop of line 146 is at.
current(s) == s.list[s.idx]

\* The loop of line 146 moves to the next payout; the locals of the call
\* that ended are gone.
next_payout(s) ==
    [s EXCEPT !.idx = @ + 1, !.pc = "processing"]

skip_payout_without_reason(p, result) ==
    [p EXCEPT !.status = "skipped", !.notes = append_note(@, "Skipped")]

skip_payout_storing_rail(p, result) ==
    [p EXCEPT !.status = "skipped", !.skip_reason = result.skip_reason,
              !.notes = append_note(@, "Skipped"),
              !.rail = "wire", !.rail_currency = "USD"]

\* Lines 206-215: the ineligible payout is skipped.
skip_payout(p, result) ==
    [p EXCEPT !.status = "skipped", !.skip_reason = result.skip_reason,
              !.notes = append_note(@, "Skipped")]

route_payout_keeping_status(p, rail) ==
    [p EXCEPT !.rail = IF rail.subtype # None THEN rail.subtype ELSE rail.payment_type,
              !.rail_subtype = rail.subtype, !.rail_currency = rail.currency,
              !.fx_indicator = rail.fx_indicator, !.payment_order_type = rail.label]

\* Lines 217-227 and 258: the routing outputs are stored, the status is
\* processing.
route_payout(p, rail) ==
    [p EXCEPT !.rail = IF rail.subtype # None THEN rail.subtype ELSE rail.payment_type,
              !.rail_subtype = rail.subtype, !.rail_currency = rail.currency,
              !.fx_indicator = rail.fx_indicator, !.payment_order_type = rail.label,
              !.status = "processing"]

\* Lines 197-258: eligibility, then routing, up to the provider call.
BeginPayout(r) ==
    LET s == sess[r]
        i == current(s)
        p == s.payouts[i]
        pid == PayoutId(s.event, i)
        result == check_eligibility(p.payment_method, p.amount, p.external_account_id,
                                    p.country, p.payment_order_id)
        rail == select_rail(p.country, p.payment_method, p.has_aba_routing # 0)
    IN
    /\ s.pc = "processing"
    /\ s.idx <= Len(s.list)
    /\ IF ~result.eligible
       THEN sess' = [sess EXCEPT ![r] =
                next_payout(tally(
                    [s EXCEPT !.payouts[i] = skip_payout(p, result),
                              !.audit = log_event(@, "eligibility_failed", r, pid),
                              !.attempt = 0, !.delay = BASE_DELAY,
                              !.last_error = NoError, !.invocations = 0],
                    "skipped", result.skip_reason))]
       ELSE sess' = [sess EXCEPT ![r] =
                [s EXCEPT !.payouts[i] = route_payout(p, rail),
                          !.audit = log_event(@, "rail_selected", r, pid),
                          !.pc = "calling", !.attempt = 0, !.delay = BASE_DELAY,
                          !.last_error = NoError, !.invocations = 0]]
    /\ UNCHANGED <<db, orders>>

\* The order the provider creates for a request; its id is fresh.
PaymentOrder(r, s, i) ==
    [payment_order_id |-> <<"po", r, i>>, event_id |-> s.event, investor_id |-> i,
     run_id |-> r, amount_cents |-> Cents(s.payouts[i].amount),
     during |-> {q \in Runs : q # r /\ Active(q) /\ sess[q].event = s.event}]

complete_without_order_id(p, payment_order_id) ==
    [p EXCEPT !.status = "completed",
              !.notes = append_note(@, "Payment order created")]

\* Lines 261-263: the order id is stored, the payout is completed.
complete_payout(p, payment_order_id) ==
    [p EXCEPT !.payment_order_id = payment_order_id, !.status = "completed",
              !.notes = append_note(@, "Payment order created")]

\* Lines 259-272: the provider returns a response.
ProviderSucceeds(r) ==
    LET s == sess[r]
        i == current(s)
        order == PaymentOrder(r, s, i)
    IN
    /\ s.pc = "calling"
    /\ orders' = orders \cup {order}
    /\ sess' = [sess EXCEPT ![r] =
            next_payout(tally(
                [s EXCEPT !.payouts[i] = complete_payout(@, order.payment_order_id),
                          !.invocations = @ + 1,
                          !.audit = log_event(@, "payment_created", r, PayoutId(s.event, i))],
                "created", None))]
    /\ UNCHANGED db

handle_failure_reraising_unexpected(e) ==
    IF IsPermanentError(e)
    THEN [caught |-> TRUE, note |-> "Permanent failure", action |-> "payment_failed_permanent"]
    ELSE IF IsProviderError(e)
    THEN [caught |-> TRUE, note |-> "Provider error after retries",
          action |-> "payment_failed_retries_exhausted"]
    ELSE [caught |-> FALSE, note |-> "Unexpected error", action |-> "payment_failed_unexpected"]

\* Lines 274-298: the except clauses, tried in their order.
handle_failure(e) ==
    IF IsPermanentError(e)
    THEN [caught |-> TRUE, note |-> "Permanent failure", action |-> "payment_failed_permanent"]
    ELSE IF IsProviderError(e)
    THEN [caught |-> TRUE, note |-> "Provider error after retries",
          action |-> "payment_failed_retries_exhausted"]
    ELSE [caught |-> TRUE, note |-> "Unexpected error", action |-> "payment_failed_unexpected"]

fail_payout_leaving_processing(p, note) ==
    [p EXCEPT !.notes = append_note(@, note)]

fail_payout_with_order_id(p, note) ==
    [p EXCEPT !.status = "failed", !.payment_order_id = <<"po", 0, "failed">>,
              !.notes = append_note(@, note)]

\* Lines 275-276, 284-285, 293-294: the payout is failed, with a note.
fail_payout(p, note) ==
    [p EXCEPT !.status = "failed", !.notes = append_note(@, note)]

\* Lines 259 and 274-298, retry.py 67-94: the provider raises e.  with_retry
\* sleeps before the next invocation or lets e go to the except clauses.
ProviderRaises(r, e) ==
    LET s == sess[r]
        i == current(s)
        h == handle_failure(e)
    IN
    /\ s.pc = "calling"
    /\ IF with_retry_on_error(s.attempt, e) = "sleep"
       THEN sess' = [sess EXCEPT ![r] =
                [s EXCEPT !.pc = "sleeping", !.last_error = e, !.invocations = @ + 1,
                          !.sleep_for = sleep_for(s.delay, e)]]
       ELSE IF h.caught
       THEN sess' = [sess EXCEPT ![r] =
                next_payout(tally(
                    [s EXCEPT !.payouts[i] = fail_payout(@, h.note),
                              !.audit = log_event(@, h.action, r, PayoutId(s.event, i)),
                              !.last_error = e, !.invocations = @ + 1],
                    "failed", None))]
       ELSE sess' = [sess EXCEPT ![r] = [IdleSession EXCEPT !.pc = "aborted"]]
    /\ UNCHANGED <<db, orders>>

\* retry.py 90-91: the sleep ends, the delay doubles, the loop invokes again.
Sleep(r) ==
    LET s == sess[r] IN
    /\ s.pc = "sleeping"
    /\ sess' = [sess EXCEPT ![r] =
            [s EXCEPT !.pc = "calling", !.attempt = @ + 1, !.delay = next_delay(@),
                      !.sleep_for = 0]]
    /\ UNCHANGED <<db, orders>>

run_status_by_failures(failures) == IF failures > 0 THEN "failed" ELSE "completed"

\* Line 162.
final_status(failures) == "completed"

\* Lines 157-182: the summary is written and everything is committed.
FinishRun(r) ==
    LET s == sess[r]
        done == [s EXCEPT !.run.created_count = s.successes,
                          !.run.skipped_count = s.skipped,
                          !.run.failed_count = s.failures,
                          !.run.skip_breakdown =
                              IF DOMAIN s.skip_counts = {} THEN {} ELSE {s.skip_counts},
                          !.run.status = final_status(s.failures),
                          !.run.completed_at = TRUE,
                          !.audit = log_event(@, "run_completed", r, NoPayoutId)]
    IN
    /\ s.pc = "processing"
    /\ s.idx > Len(s.list)
    /\ DOMAIN s.payouts \cap LockedByOthers(r, s.event) = {}
    /\ db' = Commit(r, done)
    /\ sess' = [sess EXCEPT ![r] = [IdleSession EXCEPT !.pc = "done"]]
    /\ UNCHANGED orders

-----------------------------------------------------------------------------
(* Runs invoked one after the other: a caller starts execute_run when no   *)
(* other invocation is in flight.                                          *)

StartNextRun(r, e) ==
    /\ \A q \in Runs : ~Active(q)
    /\ StartRun(r, e)

Next ==
    \E r \in Runs :
        \/ \E e \in RequestedEventIds : StartNextRun(r, e)
        \/ LoadEvent(r)
        \/ LoadPayouts(r)
        \/ EnsurePayouts(r)
        \/ BeginPayout(r)
        \/ ProviderSucceeds(r)
        \/ \E e \in ProviderFailures : ProviderRaises(r, e)
        \/ Sleep(r)
        \/ FinishRun(r)

Spec == Init /\ [][Next]_vars

\* Runs over one stored recipient, with the event loop resuming the
\* coroutine of a run whenever the provider call or the sleep it awaits has
\* ended: a step that can be taken is taken.
InitOne ==
    /\ \E i \in {"INV001", "INV010"} :
          db = [runs |-> [x \in {} |-> 0], payouts |-> [x \in {} |-> 0], audit |-> <<>>,
                investors |-> <<i>>, changed |-> {}]
    /\ sess = [r \in Runs |-> IdleSession]
    /\ orders = {}

SpecFair == InitOne /\ [][Next]_vars /\ WF_vars(Next)

\* Runs over the recipients that are stored: one of them or all three.
RecipientLists == {<<"INV001">>, InvestorRows}

InitLists ==
    /\ \E rows \in RecipientLists :
          db = [runs |-> [x \in {} |-> 0], payouts |-> [x \in {} |-> 0], audit |-> <<>>,
                investors |-> rows, changed |-> {}]
    /\ sess = [r \in Runs |-> IdleSession]
    /\ orders = {}

SpecLists == InitLists /\ [][Next]_vars

-----------------------------------------------------------------------------
(* The record of a recipient is changed from outside the engine, between   *)
(* runs: the recipient without a bank account gets one.  Two recipients    *)
(* are stored.                                                             *)

ChangeInvestor(inv) ==
    /\ \A q \in Runs : ~Active(q)
    /\ inv \notin db.changed
    /\ \E n \in 1..Len(db.investors) : db.investors[n] = inv
    /\ db' = [db EXCEPT !.changed = @ \cup {inv}]
    /\ UNCHANGED <<sess, orders>>

InitRecords ==
    /\ db = [runs |-> [x \in {} |-> 0], payouts |-> [x \in {} |-> 0], audit |-> <<>>,
             investors |-> <<"INV001", "INV060">>, changed |-> {}]
    /\ sess = [r \in Runs |-> IdleSession]
    /\ orders = {}

NextRecords == Next \/ ChangeInvestor("INV060")

SpecRecords == InitRecords /\ [][NextRecords]_vars

-----------------------------------------------------------------------------
(* The process dies during a run: the session's open transaction is rolled *)
(* back, the committed rows and the provider's orders stay.                *)

Crash(r) ==
    /\ Active(r)
    /\ sess' = [sess EXCEPT ![r] = [IdleSession EXCEPT !.pc = "crashed"]]
    /\ UNCHANGED <<db, orders>>

NextCrash == Next \/ \E r \in Runs : Crash(r)

SpecCrash == Init /\ [][NextCrash]_vars

-----------------------------------------------------------------------------
(* Overlapping invocations (POST /runs, app/api/runs.py 113-124): every    *)
(* request runs execute_run on a session of its own, and nothing in        *)
(* create_run or execute_run waits for a run of the same event to end.     *)
(* The store locks rows: a write to a row another open transaction has     *)
(* written waits, an INSERT of a stored (event, investor) pair fails.      *)

\* Line 131: the INSERT of a Payout whose (event, investor) pair another
\* run has committed meanwhile violates uq_event_investor; the error leaves
\* execute_run and the session is rolled back.
FlushConflict(r) ==
    LET s == sess[r] IN
    /\ s.pc = "payouts_loaded"
    /\ \E k \in 1..Len(s.list) :
          /\ s.list[k] \notin DOMAIN s.loaded
          /\ PayoutId(s.event, s.list[k]) \in DOMAIN db.payouts
    /\ sess' = [sess EXCEPT ![r] = [IdleSession EXCEPT !.pc = "aborted"]]
    /\ UNCHANGED <<db, orders>>

NextConc ==
    \E r \in Runs :
        \/ \E e \in RequestedEventIds : StartRun(r, e)
        \/ LoadEvent(r)
        \/ LoadPayouts(r)
        \/ EnsurePayouts(r)
        \/ FlushConflict(r)
        \/ BeginPayout(r)
        \/ ProviderSucceeds(r)
        \/ \E e \in ProviderFailures : ProviderRaises(r, e)
        \/ Sleep(r)
        \/ FinishRun(r)

SpecConc == Init /\ [][NextConc]_vars

-----------------------------------------------------------------------------
(* The order of the investors: the SELECT of line 100 has no ORDER BY, so  *)
(* the store may return the rows in any order (the order of insertion, the *)
(* order of an index, the order of the heap after updates).  Two           *)
(* recipients are stored, one of them without a bank account.              *)
(* Invocations may overlap, on a store that admits one writing transaction *)
(* at a time (SQLite, the database_url of app/config.py): the flush of     *)
(* line 131 waits while another invocation holds writes it has not         *)
(* committed.                                                              *)

Orders(rows) ==
    {o \in [1..Len(rows) -> {rows[k] : k \in 1..Len(rows)}] :
        \A j, k \in 1..Len(rows) : j # k => o[j] # o[k]}

\* Lines 93-101 with the rows of the SELECT of line 100 in any order.
LoadPayoutsInAnyOrder(r) ==
    LET s == sess[r]
        have == {i \in InvestorIds : PayoutId(s.event, i) \in DOMAIN db.payouts}
        existing_payouts == [i \in have |-> db.payouts[PayoutId(s.event, i)]]
    IN
    /\ s.pc = "event_loaded"
    /\ \E investors \in Orders(db.investors) :
          sess' = [sess EXCEPT ![r] = [s EXCEPT !.pc = "payouts_loaded",
                                               !.loaded = existing_payouts,
                                               !.list = investors]]
    /\ UNCHANGED <<db, orders>>

\* Line 131 on the store with one writer.
EnsurePayoutsInTurn(r) ==
    /\ \A q \in Runs \ {r} :
          sess[q].pc \in {"idle", "started", "event_loaded", "payouts_loaded",
                          "done", "aborted", "crashed"}
    /\ EnsurePayouts(r)

InitOrder ==
    /\ db = [runs |-> [x \in {} |-> 0], payouts |-> [x \in {} |-> 0], audit |-> <<>>,
             investors |-> <<"INV001", "INV060">>, changed |-> {}]
    /\ sess = [r \in Runs |-> IdleSession]
    /\ orders = {}

NextOrder ==
    \E r \in Runs :
        \/ \E e \in RequestedEventIds : StartRun(r, e)
        \/ LoadEvent(r)
        \/ LoadPayoutsInAnyOrder(r)
        \/ EnsurePayoutsInTurn(r)
        \/ FlushConflict(r)
        \/ BeginPayout(r)
        \/ ProviderSucceeds(r)
        \/ \E e \in ProviderFailures : ProviderRaises(r, e)
        \/ Sleep(r)
        \/ FinishRun(r)

SpecOrder == InitOrder /\ [][NextOrder]_vars

-----------------------------------------------------------------------------
(* Runs on different events: an invocation for an event no invocation has  *)
(* been made for may begin while invocations for other events are in       *)
(* flight.                                                                 *)

StartRunOnOtherEvent(r, e) ==
    /\ \A q \in Runs : sess[q].event # e
    /\ \A q \in DOMAIN db.runs : db.runs[q].liquidation_event_id # e
    /\ StartRun(r, e)

NextEvents ==
    \E r \in Runs :
        \/ \E e \in EventIds : StartRunOnOtherEvent(r, e)
        \/ LoadEvent(r)
        \/ LoadPayouts(r)
        \/ EnsurePayouts(r)
        \/ BeginPayout(r)
        \/ ProviderSucceeds(r)
        \/ \E e \in ProviderFailures : ProviderRaises(r, e)
        \/ Sleep(r)
        \/ FinishRun(r)

SpecEvents == Init /\ [][NextEvents]_vars

-----------------------------------------------------------------------------
(* The eligibility gate over the values a stored payout may hold: the      *)
(* event has one recipient, whose Payout row is stored with a payment      *)
(* method, amount, bank account, country and order id of any kind.         *)

GateMethods == {None, "", "ACH", "Wire", "Crypto"}
GateAmounts == {-50000, 0, 100000}
GateAccounts == {None, "", "ext_001"}
GateCountries == {None, "", "US", "GB"}
GateOrderIds == {NoOrder, <<"po", 0, "INV001">>}

StoredPayout(payment_method, amount, external_account_id, country, payment_order_id) ==
    [NewPayout(0, "LIQ001", "INV001", 1) EXCEPT
        !.payment_method = payment_method, !.amount = amount,
        !.external_account_id = external_account_id, !.country = country,
        !.payment_order_id = payment_order_id,
        !.status = IF payment_order_id # NoOrder THEN "completed" ELSE "pending"]

InitGate ==
    /\ \E pm \in GateMethods, a \in GateAmounts, acct \in GateAccounts,
          c \in GateCountries, po \in GateOrderIds :
          db = [runs |-> [x \in {} |-> 0],
                payouts |-> (PayoutId("LIQ001", "INV001") :> StoredPayout(pm, a, acct, c, po)),
                audit |-> <<>>,
                investors |-> <<"INV001">>, changed |-> {}]
    /\ sess = [r \in Runs |-> IdleSession]
    /\ orders = {}

SpecGate == InitGate /\ [][Next]_vars

-----------------------------------------------------------------------------
(* The rail selector over the values a stored payout may hold: the event   *)
(* has one recipient, whose pending Payout row is stored with a country,   *)
(* payment method and US-bank flag of any kind.                            *)

RailCountries ==
    {None, "", "US", "AE", "ZZ"} \cup DOMAIN GLOBAL_ACH_MAP \cup DOMAIN RawCountryCodes

RailMethods == {None, "ACH", "Wire", "Crypto"}

RailFlags == {0, 1}

InitRail ==
    /\ \E c \in RailCountries, pm \in RailMethods, aba \in RailFlags :
          db = [runs |-> [x \in {} |-> 0],
                payouts |-> (PayoutId("LIQ001", "INV001") :>
                                [StoredPayout(pm, 100000, "ext_001", c, NoOrder)
                                    EXCEPT !.has_aba_routing = aba]),
                audit |-> <<>>,
                investors |-> <<"INV001">>, changed |-> {}]
    /\ sess = [r \in Runs |-> IdleSession]
    /\ orders = {}

SpecRail == InitRail /\ [][Next]_vars

-----------------------------------------------------------------------------
(* Properties *)

\* The run rows that are committed, and those of one event.
Committed == DOMAIN db.runs

RunsOn(e) == {r \in Committed : db.runs[r].liquidation_event_id = e}

\* The event an invocation is for, whether it is in flight or committed.
EventOf(r) == IF r \in Committed THEN db.runs[r].liquidation_event_id ELSE sess[r].event

\* The committed audit entries of run r, and those about payout k.
AuditOfRun(r) == {n \in 1..Len(db.audit) : db.audit[n].run_id = r}

AuditOfPayout(log, k) == {n \in 1..Len(log) : log[n].payout_id = k}

\* C1: in runs that follow one another, the provider is never invoked for a
\* payout whose payment_order_id is set, so the provider holds at most one
\* order per (event, recipient) pair, whatever mix of successes, retriable
\* and permanent failures the provider produced.
C1_NeverResubmitted ==
    /\ \A r \in Runs :
          sess[r].pc \in {"calling", "sleeping"}
             => sess[r].payouts[current(sess[r])].payment_order_id = NoOrder
    /\ \A o1, o2 \in orders :
          (o1.event_id = o2.event_id /\ o1.investor_id = o2.investor_id) => o1 = o2

\* A third run invokes the provider again, after a retriable failure, for a
\* payout that failed before, while the event's other recipient holds the
\* order of an earlier run.
C1_Witness ==
    \E r \in Runs :
        /\ sess[r].pc = "calling"
        /\ sess[r].attempt > 0
        /\ current(sess[r]) \in DOMAIN sess[r].loaded
        /\ sess[r].loaded[current(sess[r])].status = "failed"
        /\ \E o \in orders : o.run_id < r /\ o.event_id = sess[r].event

\* C2: when the first run on an event ended with every provider call
\* succeeding (no payout failed), a later run on the event never invokes
\* the provider, creates no order and ends with created_count = 0.
C2_SecondRunCreatesNothing ==
    \A e \in EventIds : \A q \in RunsOn(e) :
        (\A x \in RunsOn(e) : q <= x)
          /\ db.runs[q].failed_count = 0
        => \A r \in Runs :
              (r > q /\ EventOf(r) = e)
                => /\ sess[r].pc \notin {"calling", "sleeping"}
                   /\ \A o \in orders : o.run_id # r
                   /\ r \in Committed => db.runs[r].created_count = 0

\* The first run paid both payable recipients, the second run on the event
\* is committed.
C2_Witness ==
    \E e \in EventIds : \E q, r \in RunsOn(e) :
        /\ \A x \in RunsOn(e) : q <= x
        /\ r > q
        /\ db.runs[q].failed_count = 0
        /\ db.runs[q].created_count = 2
        /\ db.runs[r].status = "completed"
        /\ db.runs[r].created_count = 0

\* The first committed run on event e.
FirstRunOn(e) == CHOOSE m \in RunsOn(e) : \A x \in RunsOn(e) : m <= x

\* The count a run's skip_breakdown holds for a reason.
SkipCount(run, reason) ==
    IF run.skip_breakdown = {} THEN 0
    ELSE LET counts == CHOOSE c \in run.skip_breakdown : TRUE
         IN  IF reason \in DOMAIN counts THEN counts[reason] ELSE 0

\* C3 as stated: after a first run whose provider calls all succeeded, the
\* second run's skipped_count equals the number of payouts the first run
\* completed, each skipped for existing_payment_order.
C3_AsStated ==
    \A e \in EventIds : \A r \in RunsOn(e) :
        LET q == FirstRunOn(e) IN
        (r > q /\ db.runs[q].failed_count = 0)
          => /\ db.runs[r].skipped_count = db.runs[q].created_count
             /\ SkipCount(db.runs[r], "existing_payment_order") = db.runs[r].skipped_count

\* C3: after a first run whose provider calls all succeeded, a later run on
\* the event skips every recipient: its skipped_count is the first run's
\* created_count plus the first run's skipped_count; the payouts the first
\* run completed are the ones skipped for existing_payment_order, and each
\* recipient the first run skipped is skipped again for the same reason.
C3_SecondRunSkipsAll ==
    \A e \in EventIds : \A r \in RunsOn(e) :
        LET q == FirstRunOn(e) IN
        (r > q /\ db.runs[q].failed_count = 0)
          => /\ db.runs[r].skipped_count
                   = db.runs[q].created_count + db.runs[q].skipped_count
             /\ SkipCount(db.runs[r], "existing_payment_order") = db.runs[q].created_count
             /\ \A reason \in SkipReason \ {"existing_payment_order"} :
                   SkipCount(db.runs[r], reason) = SkipCount(db.runs[q], reason)

\* Two committed runs on one event: the first completed two payouts and
\* skipped one, the second skipped all three.
C3_Witness ==
    \E e \in EventIds : \E r \in RunsOn(e) :
        /\ r > FirstRunOn(e)
        /\ db.runs[FirstRunOn(e)].failed_count = 0
        /\ db.runs[FirstRunOn(e)].created_count = 2
        /\ db.runs[FirstRunOn(e)].skipped_count = 1
        /\ db.runs[r].skipped_count = 3

\* C4: a completed run's created_count + skipped_count + failed_count is the
\* number of recipients the run loaded, in first runs and in re-runs, for
\* every behaviour of the provider.
C4_CountsAddUp ==
    \A r \in Committed :
        db.runs[r].status = "completed"
          => db.runs[r].created_count + db.runs[r].skipped_count + db.runs[r].failed_count
                = Len(db.investors)

\* A re-run that created one order, skipped one payout and failed one.
C4_Witness ==
    \E e \in EventIds : \E r \in RunsOn(e) :
        /\ r > FirstRunOn(e)
        /\ db.runs[r].status = "completed"
        /\ db.runs[r].created_count = 1
        /\ db.runs[r].skipped_count = 1
        /\ db.runs[r].failed_count = 1

\* The audit entries a step commits about payout k.
NewAuditOfPayout(k) ==
    {n \in (Len(db.audit) + 1)..Len(db'.audit) : db'.audit[n].payout_id = k}

\* A step commits a run on event e.
CommitsRunOn(e) ==
    \E r \in DOMAIN db'.runs \ DOMAIN db.runs : db'.runs[r].liquidation_event_id = e

\* C5 as stated: a payout that is completed or skipped when a later run on
\* its event starts keeps its status, skip_reason, notes and run_id, and the
\* run appends no audit entry for it.
C5_AsStated ==
    [][\A k \in DOMAIN db.payouts :
          db.payouts[k].status \in {"completed", "skipped"}
            => /\ db'.payouts[k].status = db.payouts[k].status
               /\ db'.payouts[k].skip_reason = db.payouts[k].skip_reason
               /\ db'.payouts[k].notes = db.payouts[k].notes
               /\ db'.payouts[k].run_id = db.payouts[k].run_id
               /\ NewAuditOfPayout(k) = {}]_vars

C5_NoProviderCall ==
    \A r \in Runs :
        sess[r].pc \in {"calling", "sleeping"}
          => LET k == PayoutId(sess[r].event, current(sess[r])) IN
             k \in DOMAIN db.payouts => db.payouts[k].status \notin {"completed", "skipped"}

C5_Reprocessed ==
    \A k \in DOMAIN db.payouts :
        db.payouts[k].status \in {"completed", "skipped"}
          => /\ db'.payouts[k].run_id = db.payouts[k].run_id
             /\ db'.payouts[k].payment_order_id = db.payouts[k].payment_order_id
             /\ IF CommitsRunOn(k[1])
                THEN /\ db'.payouts[k].status = "skipped"
                     /\ db'.payouts[k].skip_reason =
                           IF db.payouts[k].payment_order_id # NoOrder
                           THEN "existing_payment_order"
                           ELSE db.payouts[k].skip_reason
                     /\ db'.payouts[k].notes = Append(db.payouts[k].notes, "Skipped")
                     /\ Cardinality(NewAuditOfPayout(k)) = 1
                     /\ \A n \in NewAuditOfPayout(k) :
                           db'.audit[n].action = "eligibility_failed"
                ELSE /\ db'.payouts[k] = db.payouts[k]
                     /\ NewAuditOfPayout(k) = {}

\* C5: a payout that is completed or skipped when a later run on its event
\* starts is never submitted to the provider and keeps its run_id and its
\* payment_order_id; the run passes it through the eligibility gate again,
\* which leaves it skipped (for existing_payment_order when it holds an
\* order, for its former reason otherwise), appends one note to it and one
\* eligibility_failed audit entry for it.
C5_SkippedAgainNotResubmitted ==
    []C5_NoProviderCall /\ [][C5_Reprocessed]_vars

\* A payout that holds an order and was completed by one run has been
\* passed through a later run: it is skipped for existing_payment_order,
\* still under the run that paid it, with the note of each run.
C5_Witness ==
    \E k \in DOMAIN db.payouts :
        /\ db.payouts[k].payment_order_id # NoOrder
        /\ db.payouts[k].status = "skipped"
        /\ db.payouts[k].skip_reason = "existing_payment_order"
        /\ Len(db.payouts[k].notes) >= 2
        /\ \E r \in RunsOn(k[1]) : r > db.payouts[k].run_id

\* The status of a run: of its committed row, or of the row in its session.
StatusOf(r) == IF r \in Committed THEN db.runs[r].status ELSE sess[r].run.status

C6_EndStatus ==
    /\ \A r \in Committed :
          /\ db.runs[r].status \in {"completed", "failed"}
          /\ db.runs[r].status = "failed" <=> db.runs[r].liquidation_event_id \notin EventIds
    /\ \A r \in Runs :
          /\ sess[r].pc = "done" => r \in Committed
          /\ sess[r].pc # "aborted"

C6_LeavesRunningOnce ==
    \A r \in Runs : StatusOf(r) # "running" => StatusOf(r)' = StatusOf(r)

\* C6: a run's status leaves running once; a run ends failed only when its
\* liquidation event does not exist, and a run whose event exists ends
\* completed, also when every payout it submitted failed.
C6_RunStatus ==
    []C6_EndStatus /\ [][C6_LeavesRunningOnce]_vars

\* A completed run in which both payable payouts failed and nothing was
\* created.
C6_Witness ==
    \E r \in Committed :
        /\ db.runs[r].status = "completed"
        /\ db.runs[r].liquidation_event_id \in EventIds
        /\ db.runs[r].created_count = 0
        /\ db.runs[r].failed_count = 2

\* The audit actions that end the processing of one payout.
OutcomeActions ==
    {"eligibility_failed", "payment_created", "payment_failed_permanent",
     "payment_failed_retries_exhausted", "payment_failed_unexpected"}

\* C7: when the provider call for a payout raises an error that is no
\* provider error, the payout is failed and audited as
\* payment_failed_unexpected, the error does not leave execute_run, every
\* other payout of the run is processed to an outcome and the run is
\* committed completed.
C7_UnexpectedErrorContained ==
    /\ \A r \in Runs :
          /\ sess[r].pc # "aborted"
          /\ (sess[r].pc = "processing" /\ sess[r].last_error = OtherException)
                => LET i == sess[r].list[sess[r].idx - 1]
                       last == sess[r].audit[Len(sess[r].audit)]
                   IN  /\ sess[r].payouts[i].status = "failed"
                       /\ last.action = "payment_failed_unexpected"
                       /\ last.payout_id = PayoutId(sess[r].event, i)
    /\ \A r \in Committed :
          (\E n \in AuditOfRun(r) : db.audit[n].action = "payment_failed_unexpected")
             => /\ db.runs[r].status = "completed"
                /\ \A i \in InvestorIds :
                      \E n \in AuditOfRun(r) :
                          /\ db.audit[n].payout_id = PayoutId(db.runs[r].liquidation_event_id, i)
                          /\ db.audit[n].action \in OutcomeActions

\* A committed run whose first payout failed unexpectedly and whose second
\* payout was then paid.
C7_Witness ==
    \E r \in Committed : \E m, n \in AuditOfRun(r) :
        /\ m < n
        /\ db.audit[m].action = "payment_failed_unexpected"
        /\ db.audit[n].action = "payment_created"
        /\ db.runs[r].status = "completed"
        /\ db.runs[r].failed_count = 1

\* C8 as stated: a provider failure that with_retry lets through without a
\* retry (a non-retriable error) is audited as payment_failed_permanent, and
\* payment_failed_retries_exhausted is written only after MAX_RETRIES + 1
\* invocations that each failed retriably.
C8_AsStated ==
    \A r \in Runs :
        (sess[r].pc = "processing" /\ sess[r].last_error # NoError)
          => LET e == sess[r].last_error
                 last == sess[r].audit[Len(sess[r].audit)]
             IN  /\ (IsProviderError(e) /\ ~e.retriable)
                       => last.action = "payment_failed_permanent"
                 /\ last.action = "payment_failed_retries_exhausted"
                       => (sess[r].attempt = MAX_RETRIES /\ e.retriable)

\* C9 as stated: no two invocations on one event that overlap both submit
\* a provider order for the same recipient.
C9_AsStated ==
    \A o1, o2 \in orders :
        (o1.event_id = o2.event_id /\ o1.investor_id = o2.investor_id
           /\ o2.run_id \in o1.during)
          => o1 = o2

\* C10 as stated: after a crash before the final commit the committed rows
\* hold the Run row of the attempt in status running, no Payout row the
\* attempt wrote and no audit entry of the attempt.
C10_AsStated ==
    \A r \in Runs :
        sess[r].pc = "crashed"
          => /\ r \in Committed
             /\ db.runs[r].status = "running"
             /\ \A k \in DOMAIN db.payouts : db.payouts[k].run_id # r
             /\ AuditOfRun(r) = {}

\* C11 as stated: when a run crashed after provider calls of it succeeded
\* and a new run is started on the event, no recipient holds more than one
\* provider order for the event.
C11_AsStated ==
    \A o1, o2 \in orders :
        (o1.event_id = o2.event_id /\ o1.investor_id = o2.investor_id
           /\ sess[o1.run_id].pc = "crashed")
          => o1 = o2

\* C12: the payouts table holds at most one row per (event, recipient): every
\* stored row sits under its own pair, a run holds one Payout per recipient,
\* and the Payouts a run creates are for recipients that have no stored row
\* for the event.
C12_OnePayoutPerPair ==
    /\ \A k \in DOMAIN db.payouts :
          /\ db.payouts[k].liquidation_event_id = k[1]
          /\ db.payouts[k].investor_id = k[2]
    /\ \A r \in Runs :
          LET s == sess[r] IN
          /\ \A m, n \in 1..Len(s.list) : s.list[m] = s.list[n] => m = n
          /\ s.pc = "payouts_loaded"
                => \A n \in 1..Len(s.list) :
                      s.list[n] \notin DOMAIN s.loaded
                         => PayoutId(s.event, s.list[n]) \notin DOMAIN db.payouts
          /\ s.pc \in {"processing", "calling", "sleeping"}
                => /\ DOMAIN s.payouts = {s.list[n] : n \in 1..Len(s.list)}
                   /\ \A i \in DOMAIN s.payouts \ DOMAIN s.loaded :
                         PayoutId(s.event, i) \notin DOMAIN db.payouts

\* A later run on an event that has a stored Payout for each recipient has
\* loaded them all and creates none.
C12_Witness ==
    \E r \in Runs :
        /\ sess[r].pc = "processing"
        /\ DOMAIN sess[r].loaded = InvestorIds
        /\ DOMAIN sess[r].payouts = InvestorIds
        /\ Cardinality(DOMAIN db.payouts) = Cardinality(InvestorIds)

C13_NothingElseWritten ==
    \A r \in Runs :
        /\ sess[r].event \notin EventIds \cup {None} => sess[r].pc = "started"
        /\ (r \in Committed /\ db.runs[r].status = "failed")
              => /\ \A k \in DOMAIN db.payouts : db.payouts[k].run_id # r
                 /\ \A o \in orders : o.run_id # r

C13_FailedRunCommitted ==
    \A r \in Runs :
        (sess[r].pc = "started" /\ sess[r].event \notin EventIds /\ sess'[r].pc # "started")
          => /\ db'.payouts = db.payouts
             /\ orders' = orders
             /\ db'.runs = db.runs @@ (r :> [PayoutRun(sess[r].event) EXCEPT
                                                !.status = "failed", !.completed_at = TRUE])
             /\ db'.audit = db.audit \o <<AuditLog(r, NoPayoutId, "run_started"),
                                          AuditLog(r, NoPayoutId, "run_failed")>>
             /\ sess'[r].pc = "done"

\* C13: when the liquidation event is not found, execute_run creates and
\* modifies no Payout row and makes no provider call; it commits the Run row
\* with status failed and completed_at set, and the run_started and
\* run_failed audit entries, and nothing else.
C13_MissingEvent ==
    []C13_NothingElseWritten /\ [][C13_FailedRunCommitted]_vars

\* A run on an unknown event is committed as failed after an earlier run
\* stored payouts.
C13_Witness ==
    \E r \in Committed :
        /\ db.runs[r].status = "failed"
        /\ db.runs[r].completed_at
        /\ DOMAIN db.payouts # {}
        /\ \E q \in Committed : q < r /\ db.runs[q].status = "completed"

\* Steps of the provider call of run r: the operation raises, or returns.
OperationRaises(r) ==
    sess[r].pc = "calling" /\ sess'[r] # sess[r] /\ orders' = orders

OperationReturns(r) ==
    sess[r].pc = "calling" /\ orders' # orders /\ sess'[r] # sess[r]

Retriable(e) == IsProviderError(e) /\ e.retriable

\* The payout the loop of run r has just left.
Previous(s) == s.payouts[s.list[s.idx - 1]]

C14_EveryInvocationFollowsRetriableFailures ==
    \A r \in Runs :
        sess[r].pc = "calling"
          => /\ sess[r].invocations = sess[r].attempt
             /\ sess[r].attempt <= MAX_RETRIES
             /\ sess[r].attempt > 0 => Retriable(sess[r].last_error)

C14_RetriedThenReturned ==
    \A r \in Runs :
        /\ (OperationRaises(r) /\ Retriable(sess'[r].last_error)
               /\ sess[r].invocations < MAX_RETRIES)
              => sess'[r].pc = "sleeping"
        /\ (sess[r].pc = "sleeping" /\ sess'[r] # sess[r])
              => /\ sess'[r].pc = "calling"
                 /\ sess'[r].attempt = sess[r].attempt + 1
                 /\ sess'[r].invocations = sess[r].invocations
        /\ OperationReturns(r)
              => /\ sess'[r].invocations = sess[r].attempt + 1
                 /\ sess'[r].pc = "processing"
                 /\ sess'[r].idx = sess[r].idx + 1
                 /\ \E o \in orders' \ orders :
                       /\ orders' = orders \cup {o}
                       /\ Previous(sess'[r]).payment_order_id = o.payment_order_id
                       /\ Previous(sess'[r]).status = "completed"

\* C14: for every k < MAX_RETRIES + 1, when the operation fails retriably k
\* times and then succeeds, with_retry returns that result after k + 1
\* invocations: each retriable failure short of the limit is followed by a
\* sleep and one more invocation, and the success ends the call.
C14_SuccessAfterRetries ==
    []C14_EveryInvocationFollowsRetriableFailures /\ [][C14_RetriedThenReturned]_vars

\* The operation succeeded on its sixth invocation, after five retriable
\* failures.
C14_Witness ==
    \E r \in Runs :
        /\ sess[r].pc = "processing"
        /\ sess[r].idx > 1
        /\ Previous(sess[r]).status = "completed"
        /\ sess[r].invocations = MAX_RETRIES + 1
        /\ sess[r].attempt = MAX_RETRIES

\* C15: when the operation raises a non-retriable provider error, on the
\* first call or after retriable failures, with_retry lets it through at
\* once: no sleep follows and the operation is not invoked again for the
\* payout, which is failed.
C15_PermanentPropagatesAtOnce ==
    [][\A r \in Runs :
          (OperationRaises(r) /\ IsProviderError(sess'[r].last_error)
               /\ ~sess'[r].last_error.retriable)
            => /\ sess'[r].pc = "processing"
               /\ sess'[r].idx = sess[r].idx + 1
               /\ sess'[r].attempt = sess[r].attempt
               /\ sess'[r].invocations = sess[r].invocations + 1
               /\ sess'[r].sleep_for = 0
               /\ Previous(sess'[r]).status = "failed"]_vars

\* A permanent error ended the call on the third invocation, after two
\* retriable failures.
C15_Witness ==
    \E r \in Runs :
        /\ sess[r].pc = "processing"
        /\ sess[r].last_error = PermanentError(400)
        /\ sess[r].attempt = 2
        /\ sess[r].invocations = 3
        /\ Previous(sess[r]).status = "failed"

C16_AtMostMaxAttempts ==
    \A r \in Runs : sess[r].invocations <= MAX_RETRIES + 1

C16_LastErrorPropagated ==
    \A r \in Runs :
        (OperationRaises(r) /\ Retriable(sess'[r].last_error))
          => IF sess[r].invocations = MAX_RETRIES
             THEN /\ sess'[r].pc = "processing"
                  /\ sess'[r].invocations = MAX_RETRIES + 1
                  /\ sess'[r].last_error \in ProviderFailures
                  /\ Previous(sess'[r]).status = "failed"
                  /\ sess'[r].audit[Len(sess'[r].audit)].action
                        = "payment_failed_retries_exhausted"
             ELSE sess'[r].pc = "sleeping"

\* C16: when every invocation fails retriably, with_retry invokes the
\* operation MAX_RETRIES + 1 times (6) and then lets the error of the last
\* invocation through.
C16_ExhaustedAfterMaxAttempts ==
    []C16_AtMostMaxAttempts /\ [][C16_LastErrorPropagated]_vars

\* Six invocations failed retriably, the last with a rate limit, and the
\* payout is failed.
C16_Witness ==
    \E r \in Runs :
        /\ sess[r].pc = "processing"
        /\ sess[r].invocations = MAX_RETRIES + 1
        /\ sess[r].last_error = RateLimitError(45)
        /\ Previous(sess[r]).status = "failed"

\* The checks of the gate in their order, and the reason each one gives.
GateReasons ==
    <<"existing_payment_order", "invalid_method", "invalid_amount",
      "missing_external_account", "missing_country">>

GateFailures(p) ==
    {n \in 1..5 :
        \/ n = 1 /\ p.payment_order_id # NoOrder
        \/ n = 2 /\ (Falsy(p.payment_method) \/ p.payment_method \notin ALLOWED_METHODS)
        \/ n = 3 /\ p.amount <= 0
        \/ n = 4 /\ Falsy(p.external_account_id)
        \/ n = 5 /\ Falsy(p.country)}

FirstFailing(p) ==
    IF GateFailures(p) = {} THEN None
    ELSE GateReasons[CHOOSE n \in GateFailures(p) : \A m \in GateFailures(p) : n <= m]

\* The recipients whose payout run r has passed through the gate.
Gated(s) ==
    {s.list[n] : n \in {m \in 1..Len(s.list) :
                          m < s.idx \/ (m = s.idx /\ s.pc \in {"calling", "sleeping"})}}

PayoutTrail(r, k) ==
    LET Mine(a) == a.run_id = r /\ a.payout_id = k
        entries == SelectSeq(db.audit, Mine)
    IN  [n \in 1..Len(entries) |-> entries[n].action]

PaymentOutcomes ==
    {"payment_created", "payment_failed_permanent",
     "payment_failed_retries_exhausted", "payment_failed_unexpected"}

\* C18: every payout a run processed has audit entries with the run's id
\* and its own id: one eligibility_failed entry when it was ineligible,
\* otherwise one rail_selected entry followed by one of payment_created,
\* payment_failed_permanent, payment_failed_retries_exhausted and
\* payment_failed_unexpected.
C18_PayoutTrail ==
    \A r \in Committed :
        db.runs[r].status = "completed"
          => LET e == db.runs[r].liquidation_event_id
                 trail(i) == PayoutTrail(r, PayoutId(e, i))
                 skipped == {i \in InvestorIds : trail(i) = <<"eligibility_failed">>}
                 routed == {i \in InvestorIds :
                               /\ Len(trail(i)) = 2
                               /\ trail(i)[1] = "rail_selected"
                               /\ trail(i)[2] \in PaymentOutcomes}
             IN  /\ skipped \cup routed = InvestorIds
                 /\ Cardinality(skipped) = db.runs[r].skipped_count
                 /\ Cardinality({i \in routed : trail(i)[2] = "payment_created"})
                       = db.runs[r].created_count

\* A committed run with a skipped payout, a paid one and one that failed
\* after its retries.
C18_Witness ==
    \E r \in Committed :
        /\ db.runs[r].status = "completed"
        /\ PayoutTrail(r, PayoutId("LIQ001", "INV060")) = <<"eligibility_failed">>
        /\ PayoutTrail(r, PayoutId("LIQ001", "INV001")) = <<"rail_selected", "payment_created">>
        /\ PayoutTrail(r, PayoutId("LIQ001", "INV010"))
              = <<"rail_selected", "payment_failed_retries_exhausted">>

\* C19: a completed run has one run_started and one run_completed audit
\* entry with its id; run_started is the first entry of the run and
\* run_completed the last.
C19_RunTrail ==
    \A r \in Committed :
        db.runs[r].status = "completed"
          => LET mine == AuditOfRun(r)
                 first == CHOOSE n \in mine : \A m \in mine : n <= m
                 last == CHOOSE n \in mine : \A m \in mine : m <= n
             IN  /\ mine # {}
                 /\ db.audit[first].action = "run_started"
                 /\ db.audit[last].action = "run_completed"
                 /\ Cardinality({n \in mine : db.audit[n].action = "run_started"}) = 1
                 /\ Cardinality({n \in mine : db.audit[n].action = "run_completed"}) = 1

\* A completed re-run whose entries follow those of an earlier run.
C19_Witness ==
    \E q, r \in Committed :
        /\ q < r
        /\ db.runs[q].status = "completed"
        /\ db.runs[r].status = "completed"
        /\ Cardinality(AuditOfRun(r)) >= 5
        /\ db.audit[Len(db.audit)] = AuditLog(r, NoPayoutId, "run_completed")

IsPrefix(s, t) == Len(s) <= Len(t) /\ SubSeq(t, 1, Len(s)) = s

\* C20: the audit log is append-only: every step leaves the committed log a
\* prefix of the log after it, and the entries a run has logged stay as
\* they are until the run's commit appends them to the log.
C20_AppendOnly ==
    [][/\ IsPrefix(db.audit, db'.audit)
       /\ \A r \in Runs :
             /\ (Active(r) /\ Active(r)') => IsPrefix(sess[r].audit, sess'[r].audit)
             /\ (Active(r) /\ sess'[r].pc = "done")
                   => IsPrefix(db.audit \o sess[r].audit, db'.audit)]_vars

\* The log holds the entries of two committed runs.
C20_Witness ==
    \E q, r \in Committed :
        /\ q < r
        /\ Cardinality(AuditOfRun(q)) >= 5
        /\ Cardinality(AuditOfRun(r)) >= 5
        /\ Len(db.audit) = Cardinality(AuditOfRun(q)) + Cardinality(AuditOfRun(r))

\* The rows a run on event e changes when it commits.
ChangedPayouts == {k \in DOMAIN db.payouts' : k \notin DOMAIN db.payouts \/ db.payouts'[k] # db.payouts[k]}

\* The Payout a first run r on event e creates for investor i, and what the
\* eligibility gate says of it.
FirstPayout(r, e, i) == NewPayout(r, e, i, Len(InvestorRows))

GateOf(p) == check_eligibility(p.payment_method, p.amount, p.external_account_id, p.country, p.payment_order_id)

OrdersFor(e, i) == {o \in orders : o.event_id = e /\ o.investor_id = i}

RowsWithStatus(e, st) == {i \in InvestorIds : db.payouts[PayoutId(e, i)].status = st}

\* The outcome of a run r on event e that no other run preceded, as a
\* function of the event, the recipients and what the provider answered for
\* the payouts of this event.
AsWhenAlone(r, e) ==
    /\ \A i \in InvestorIds : PayoutId(e, i) \in DOMAIN db.payouts
    /\ \A i \in InvestorIds :
          LET p == db.payouts[PayoutId(e, i)]
              first == FirstPayout(r, e, i)
          IN  /\ p.run_id = r
              /\ p.liquidation_event_id = e
              /\ p.amount = first.amount
              /\ IF ~GateOf(first).eligible
                 THEN p.status = "skipped" /\ p.skip_reason = GateOf(first).skip_reason
                      /\ p.payment_order_id = NoOrder /\ OrdersFor(e, i) = {}
                 ELSE IF OrdersFor(e, i) # {}
                 THEN p.status = "completed" /\ Cardinality(OrdersFor(e, i)) = 1
                      /\ \A o \in OrdersFor(e, i) : o.payment_order_id = p.payment_order_id /\ o.run_id = r
                 ELSE p.status = "failed" /\ p.payment_order_id = NoOrder
    /\ db.runs[r].created_count = Cardinality(RowsWithStatus(e, "completed"))
    /\ db.runs[r].skipped_count = Cardinality(RowsWithStatus(e, "skipped"))
    /\ db.runs[r].failed_count = Cardinality(RowsWithStatus(e, "failed"))
    /\ db.runs[r].status = "completed"

\* C21: two runs on two different events that interleave arbitrarily each
\* read and write only the Payout rows of their own event (the rows a run
\* has loaded or holds are of its event, and a commit changes the rows of
\* the committing run's event only), and each ends with the payout statuses
\* and run counts it has when it executes alone.
C21_OwnRowsOnly ==
    \A r \in Runs :
        /\ \A i \in DOMAIN sess[r].loaded : sess[r].loaded[i].liquidation_event_id = sess[r].event
        /\ \A i \in DOMAIN sess[r].payouts : sess[r].payouts[i].liquidation_event_id = sess[r].event

C21_CommitOwnRowsOnly ==
    \A k \in ChangedPayouts :
        \E r \in Runs : sess[r].event = k[1] /\ sess[r].pc = "processing" /\ sess'[r].pc = "done"

C21_EndsAsWhenAlone ==
    \A r \in Committed : AsWhenAlone(r, db.runs[r].liquidation_event_id)

CountryOf(code) == strip_upper(IF Falsy(code) THEN "" ELSE code)

\* The payout a run is at a provider call for.
AtProvider(r) == sess[r].pc \in {"calling", "sleeping"}

Routed(r) == sess[r].payouts[current(sess[r])]

ForeignWithUSBankLabel == "ACH (US) - foreign investor with US bank"

\* C22: for every country other than US (one of the supported table, an
\* unsupported one or an absent one) and every payment method, select_rail
\* with the US-bank flag true returns payment type ach, subtype CCD, currency
\* USD, no FX indicator and the label of the foreign investor with a US
\* bank; a payout so routed holds these outputs at the provider call.
C22_Decisions ==
    \A c \in RailCountries, pm \in RailMethods :
        CountryOf(c) # "US" =>
           LET d == select_rail(c, pm, TRUE) IN
           /\ d.payment_type = "ach" /\ d.subtype = "CCD" /\ d.currency = "USD"
           /\ d.fx_indicator = None
           /\ d.label = <<ForeignWithUSBankLabel, CountryOf(c)>>

\* C22, whole: the decisions of select_rail for a country other than US
\* with the flag true, and the outputs such a payout holds at the provider.
C22_FlagOverridesCountry ==
    /\ C22_Decisions
    /\ \A r \in Runs :
          (AtProvider(r) /\ Routed(r).has_aba_routing # 0 /\ CountryOf(Routed(r).country) # "US") =>
             /\ Routed(r).rail = "CCD" /\ Routed(r).rail_subtype = "CCD"
             /\ Routed(r).rail_currency = "USD" /\ Routed(r).fx_indicator = None
             /\ Routed(r).payment_order_type[1] = ForeignWithUSBankLabel

\* A recipient in Japan whose account has US routing is at the provider
\* call, routed to domestic ACH.
C22_Witness ==
    \E r \in Runs :
        /\ AtProvider(r)
        /\ Routed(r).country = "JP" /\ Routed(r).has_aba_routing = 1
        /\ Routed(r).rail_subtype = "CCD" /\ Routed(r).rail_currency = "USD"

\* The decisions of select_rail for the codes that name the US.
C23_Decisions ==
    \A c \in RailCountries, pm \in RailMethods, flag \in BOOLEAN :
        CountryOf(c) = "US" =>
           LET d == select_rail(c, pm, flag) IN
           /\ d.payment_type = "ach" /\ d.subtype = "CCD" /\ d.currency = "USD"
           /\ d.fx_indicator = None

\* C23: for country US, select_rail returns payment type ach, subtype CCD,
\* currency USD and no FX indicator for every payment method, Wire included,
\* and for either value of the US-bank flag; a payout of a US recipient
\* holds these outputs at the provider call.
C23_DomesticWhateverTheMethod ==
    /\ C23_Decisions
    /\ \A r \in Runs :
          (AtProvider(r) /\ CountryOf(Routed(r).country) = "US") =>
             /\ Routed(r).rail = "CCD" /\ Routed(r).rail_subtype = "CCD"
             /\ Routed(r).rail_currency = "USD" /\ Routed(r).fx_indicator = None

\* A US recipient who prefers Wire is at the provider call, routed to ACH.
C23_Witness ==
    \E r \in Runs :
        /\ AtProvider(r)
        /\ Routed(r).country = "US" /\ Routed(r).payment_method = "Wire"
        /\ Routed(r).rail = "CCD" /\ Routed(r).payment_order_type = <<"ACH (US)">>

\* The decisions of select_rail for the codes of the cross-border table, and
\* the 19 entries of the Eurozone.
C24_Decisions ==
    /\ \A c \in RailCountries, pm \in RailMethods :
          CountryOf(c) \in DOMAIN GLOBAL_ACH_MAP =>
             LET d == select_rail(c, pm, FALSE)
                 cfg == GLOBAL_ACH_MAP[CountryOf(c)]
             IN  /\ d.payment_type = "cross_border"
                 /\ d.subtype = cfg.subtype /\ d.currency = cfg.currency
                 /\ d.purpose = cfg.purpose
                 /\ d.fx_indicator = "fixed_to_variable"
    /\ Cardinality(SepaCountries) = 19
    /\ \A c \in SepaCountries, pm \in RailMethods :
          /\ c \in RailCountries
          /\ select_rail(c, pm, FALSE).subtype = "sepa"
          /\ select_rail(c, pm, FALSE).currency = "EUR"

\* C24: for every country of the supported cross-border table and flag
\* false, select_rail returns payment type cross_border with the subtype,
\* currency and purpose code of the country's table entry and FX indicator
\* fixed_to_variable; for each of the 19 Eurozone countries this is subtype
\* sepa and currency EUR.  A payout so routed holds the entry's subtype and
\* currency at the provider call.
C24_CrossBorderFromTable ==
    /\ C24_Decisions
    /\ \A r \in Runs :
          (AtProvider(r) /\ Routed(r).has_aba_routing = 0
             /\ CountryOf(Routed(r).country) \in DOMAIN GLOBAL_ACH_MAP) =>
             LET cfg == GLOBAL_ACH_MAP[CountryOf(Routed(r).country)] IN
             /\ Routed(r).rail = cfg.subtype /\ Routed(r).rail_subtype = cfg.subtype
             /\ Routed(r).rail_currency = cfg.currency
             /\ Routed(r).fx_indicator = "fixed_to_variable"

\* A recipient in Canada is at the provider call, routed to EFT in CAD.
C24_Witness ==
    \E r \in Runs :
        /\ AtProvider(r)
        /\ Routed(r).country = "CA" /\ Routed(r).has_aba_routing = 0
        /\ Routed(r).rail_subtype = "eft" /\ Routed(r).rail_currency = "CAD"
        /\ Routed(r).fx_indicator = "fixed_to_variable"

\* The countries select_rail has a rail for.
SUPPORTED_COUNTRIES == {"US"} \cup DOMAIN GLOBAL_ACH_MAP

\* Every input has a decision; the decisions for the codes that name no
\* supported country.
C25_Decisions ==
    /\ \A c \in RailCountries, pm \in RailMethods, flag \in BOOLEAN :
          LET d == select_rail(c, pm, flag) IN
          /\ d.payment_type \in {"ach", "cross_border", "wire"}
          /\ d.currency # None
          /\ d.label # <<>>
    /\ \A c \in RailCountries, pm \in RailMethods :
          CountryOf(c) \notin SUPPORTED_COUNTRIES =>
             LET d == select_rail(c, pm, FALSE) IN
             /\ d.payment_type = "wire" /\ d.subtype = None /\ d.currency = "USD"
             /\ d.fx_indicator = None

\* C25: select_rail is total and never fails: for every input it returns a
\* decision, and for a country that is absent, empty or not in the
\* supported table, with flag false, the decision is the wire fallback with
\* currency USD, no subtype and no FX indicator.  A payout so routed holds
\* the fallback at the provider call.
C25_TotalWithWireFallback ==
    /\ C25_Decisions
    /\ \A r \in Runs :
          (AtProvider(r) /\ Routed(r).has_aba_routing = 0
             /\ CountryOf(Routed(r).country) \notin SUPPORTED_COUNTRIES) =>
             /\ Routed(r).rail = "wire" /\ Routed(r).rail_subtype = None
             /\ Routed(r).rail_currency = "USD" /\ Routed(r).fx_indicator = None

\* A recipient whose country code is blank, and so names no country, is at
\* the provider call, routed to the wire fallback.
C25_Witness ==
    \E r \in Runs :
        /\ AtProvider(r)
        /\ CountryOf(Routed(r).country) = "" /\ Routed(r).has_aba_routing = 0
        /\ Routed(r).rail = "wire"
        /\ Routed(r).payment_order_type = <<"Wire (International)", "unknown">>

\* The payouts a run found stored with a status that is neither completed
\* nor skipped.
Unsettled(s) == {i \in DOMAIN s.loaded : s.loaded[i].status \notin {"completed", "skipped"}}

\* The actions a session has logged for payout k.
LoggedFor(s, k) == {s.audit[n].action : n \in AuditOfPayout(s.audit, k)}

\* Lines 103-110: the step that ensures the payouts sets the run_id of every
\* unsettled payout to the run's id.
C26_Reattached ==
    \A r \in Runs :
        (sess[r].pc = "payouts_loaded" /\ sess'[r].pc = "processing") =>
            \A i \in Unsettled(sess[r]) : sess'[r].payouts[i].run_id = r

\* The provider returns for an unsettled payout: the payout is completed
\* with the order id and the run's successes grow by one.
C26_SuccessCounted ==
    \A r \in Runs :
        (sess[r].pc = "calling" /\ sess'[r].pc = "processing"
           /\ current(sess[r]) \in Unsettled(sess[r]) /\ orders' # orders) =>
            LET p == sess'[r].payouts[current(sess[r])] IN
            /\ p.status = "completed" /\ p.payment_order_id # NoOrder
            /\ p.run_id = r
            /\ \E o \in orders' \ orders : o.payment_order_id = p.payment_order_id
            /\ sess'[r].successes = sess[r].successes + 1

\* The commit of the run: every unsettled payout is stored under the run,
\* has passed the gate again in it, and when completed holds an order of
\* this run; created_count is the number of payouts completed in the run.
C26_ProcessedAgain ==
    \A r \in Runs :
        (sess[r].pc = "processing" /\ sess'[r].pc = "done") =>
           /\ \A i \in Unsettled(sess[r]) :
                 LET k == PayoutId(sess[r].event, i)
                     p == db'.payouts[k]
                 IN  /\ p.run_id = r
                     /\ LoggedFor(sess[r], k) \cap {"rail_selected", "eligibility_failed"} # {}
                     /\ p.status \in {"completed", "failed", "skipped"}
                     /\ p.status = "completed" =>
                           /\ "payment_created" \in LoggedFor(sess[r], k)
                           /\ \E o \in orders : o.payment_order_id = p.payment_order_id /\ o.run_id = r
           /\ db'.runs[r].created_count =
                 Cardinality({k \in DOMAIN db'.payouts : db'.payouts[k].run_id = r
                                                            /\ db'.payouts[k].status = "completed"})

\* C26: an existing payout whose status is not completed or skipped when a
\* run starts (one that failed in an earlier run) gets its run_id set to the
\* new run's id and is processed again in that run; if the provider now
\* succeeds it ends completed with an order id and is counted in the new
\* run's created_count.
C26_UnsettledPayoutRetried ==
    [][C26_Reattached /\ C26_SuccessCounted /\ C26_ProcessedAgain]_vars

\* The payout of INV001 failed in the first run and is completed under the
\* second, which counts it.
C26_Witness ==
    LET k == PayoutId("LIQ001", "INV001") IN
    /\ {1, 2} \subseteq Committed
    /\ db.runs[1].failed_count >= 1 /\ PayoutTrail(1, k) # <<>>
    /\ "payment_created" \notin {PayoutTrail(1, k)[n] : n \in DOMAIN PayoutTrail(1, k)}
    /\ k \in DOMAIN db.payouts
    /\ db.payouts[k].run_id = 2 /\ db.payouts[k].status = "completed"
    /\ db.payouts[k].payment_order_id # NoOrder
    /\ db.runs[2].created_count >= 1

\* The fields of a payout that hold routing outputs.
RoutingOutputs(p) == <<p.rail, p.rail_subtype, p.rail_currency, p.fx_indicator, p.payment_order_type>>

\* The number of payouts a run has counted as skipped for a reason.
SkipCounted(s, reason) == IF reason \in DOMAIN s.skip_counts THEN s.skip_counts[reason] ELSE 0

\* C27: for a payout that fails the eligibility gate, the run makes no
\* provider call and stores no routing output: the step that processes it
\* sets status skipped and the skip reason, appends one note, writes one
\* eligibility_failed audit entry, counts the payout as skipped (under its
\* reason) and leaves everything else of the payout as it was.
C27_IneligibleOnlySkipped ==
    [][\A r \in Runs :
          LET s == sess[r]
              i == current(s)
              p == s.payouts[i]
              gate == GateOf(p)
              t == sess'[r]
          IN  (s.pc = "processing" /\ s.idx <= Len(s.list) /\ ~gate.eligible /\ t # s) =>
                 /\ t.pc = "processing" /\ t.idx = s.idx + 1
                 /\ orders' = orders /\ t.invocations = 0
                 /\ t.payouts = [s.payouts EXCEPT ![i] =
                                    [p EXCEPT !.status = "skipped",
                                              !.skip_reason = gate.skip_reason,
                                              !.notes = p.notes \o <<"Skipped">>]]
                 /\ RoutingOutputs(t.payouts[i]) = RoutingOutputs(p)
                 /\ t.audit = s.audit \o <<AuditLog(r, PayoutId(s.event, i), "eligibility_failed")>>
                 /\ t.skipped = s.skipped + 1
                 /\ t.successes = s.successes /\ t.failures = s.failures
                 /\ SkipCounted(t, gate.skip_reason) = SkipCounted(s, gate.skip_reason) + 1]_vars

\* A stored payout with a payment method that is not allowed has been
\* skipped: no routing output, no order, one note, counted once.
C27_Witness ==
    \E r \in Runs :
        LET s == sess[r] IN
        /\ s.pc = "processing" /\ s.idx = 2 /\ s.skipped = 1
        /\ s.payouts["INV001"].status = "skipped"
        /\ s.payouts["INV001"].skip_reason = "invalid_method"
        /\ s.payouts["INV001"].rail = None
        /\ s.payouts["INV001"].notes = <<"Skipped">>
        /\ LoggedFor(s, PayoutId(s.event, "INV001")) = {"eligibility_failed"}
        /\ orders = {}

\* The routing outputs the decision for a payout gives.
DecisionOutputs(p) ==
    LET d == select_rail(p.country, p.payment_method, p.has_aba_routing # 0) IN
    <<IF d.subtype # None THEN d.subtype ELSE d.payment_type, d.subtype, d.currency,
      d.fx_indicator, d.label>>

\* While the provider is invoked for a payout, from the first invocation
\* on, the payout is processing, holds the routing outputs, and the run's
\* last entry for it is rail_selected.
C28_RoutedWhileAtProvider ==
    \A r \in Runs :
        AtProvider(r) =>
           LET s == sess[r]
               p == Routed(r)
           IN  /\ p.status = "processing"
               /\ RoutingOutputs(p) = DecisionOutputs(p)
               /\ s.audit # <<>>
               /\ s.audit[Len(s.audit)] = AuditLog(r, PayoutId(s.event, current(s)), "rail_selected")

\* A stored payout that failed holds routing outputs.
C28_FailedKeepsRouting ==
    \A k \in DOMAIN db.payouts :
        db.payouts[k].status = "failed" => RoutingOutputs(db.payouts[k]) = DecisionOutputs(db.payouts[k])

\* An eligible payout is routed, with no provider invocation before, and a
\* provider call that fails leaves the routing outputs.
C28_RoutedThenInvoked ==
    \A r \in Runs :
        LET s == sess[r]
            t == sess'[r]
            i == current(s)
        IN  /\ (s.pc = "processing" /\ s.idx <= Len(s.list) /\ GateOf(s.payouts[i]).eligible /\ t # s) =>
                   /\ t.pc = "calling" /\ t.invocations = 0 /\ orders' = orders
                   /\ Len(t.audit) = Len(s.audit) + 1
            /\ (s.pc = "calling" /\ t.pc = "processing" /\ orders' = orders) =>
                   /\ t.payouts[i].status = "failed"
                   /\ RoutingOutputs(t.payouts[i]) = RoutingOutputs(s.payouts[i])

\* C28: for every eligible payout the routing outputs are stored on the
\* payout and the rail_selected entry is appended before the first provider
\* invocation, the payout's status is processing during every provider
\* invocation, and the routing outputs stay stored when the provider call
\* then fails.
C28_RoutingStoredBeforeProvider ==
    /\ [](C28_RoutedWhileAtProvider /\ C28_FailedKeepsRouting)
    /\ [][C28_RoutedThenInvoked]_vars

\* The payout of a recipient in Germany is stored failed, after a provider
\* call that was retried, with the SEPA routing outputs.
C28_Witness ==
    \E k \in DOMAIN db.payouts :
        /\ db.payouts[k].status = "failed" /\ db.payouts[k].country = "DE"
        /\ db.payouts[k].rail = "sepa" /\ db.payouts[k].rail_currency = "EUR"
        /\ db.payouts[k].fx_indicator = "fixed_to_variable"
        /\ \E n \in 1..Len(db.audit) : db.audit[n].action = "payment_failed_retries_exhausted"

\* The place of a recipient in the list of the run's loop.
Place(list, i) == CHOOSE n \in 1..Len(list) : list[n] = i

\* The payout the run holds for the recipient at place n before it
\* processes it.
Ensured(r, s, n) ==
    IF s.list[n] \in DOMAIN s.loaded
    THEN attach(s.loaded[s.list[n]], r)
    ELSE NewPayoutOf(r, s.event, s.list[n], InvestorRow(s.list[n]), Len(s.list))

InLoop(s) == s.pc \in {"processing", "calling", "sleeping"}

\* The entries of a log about payouts are grouped by payout, in the order of
\* the list.
Grouped(log, list) ==
    \A a, b \in 1..Len(log) :
        (a < b /\ log[a].payout_id # NoPayoutId /\ log[b].payout_id # NoPayoutId) =>
            Place(list, log[a].payout_id[2]) <= Place(list, log[b].payout_id[2])

\* In a run's loop the payouts before the one at hand are at an outcome,
\* the payouts after it are as they were ensured, without an audit entry,
\* and the run's entries are grouped by payout.
C29_OneAtATime ==
    \A r \in Runs :
        LET s == sess[r] IN
        InLoop(s) =>
           /\ \A n \in 1..Len(s.list) :
                 LET p == s.payouts[s.list[n]]
                     k == PayoutId(s.event, s.list[n])
                 IN  /\ n < s.idx =>
                           /\ p.status \in {"completed", "failed", "skipped"}
                           /\ LoggedFor(s, k) \cap OutcomeActions # {}
                     /\ (n > s.idx \/ (n = s.idx /\ s.pc = "processing")) =>
                           /\ p = Ensured(r, s, n)
                           /\ LoggedFor(s, k) = {}
                     /\ (n = s.idx /\ s.pc # "processing") =>
                           LoggedFor(s, k) = {"rail_selected"}
           /\ Grouped(s.audit, s.list)

\* The committed entries of every run are grouped by payout.
C29_CommittedLogGrouped ==
    \A r \in Committed :
        LET Mine(a) == a.run_id = r IN Grouped(SelectSeq(db.audit, Mine), db.investors)

\* A step of a run in its loop changes the payout at hand only, and an
\* order the provider creates is for the payout at hand.
C29_OnlyThePayoutAtHand ==
    \A r \in Runs :
        LET s == sess[r]
            t == sess'[r]
        IN  (InLoop(s) /\ InLoop(t) /\ s.idx <= Len(s.list)) =>
               /\ \A n \in 1..Len(s.list) : n # s.idx => t.payouts[s.list[n]] = s.payouts[s.list[n]]
               /\ t # s => \A o \in orders' \ orders : o.run_id = r /\ o.investor_id = s.list[s.idx]

\* C29: within one run payouts are processed strictly one after another:
\* all status changes, provider invocations and audit entries of one payout
\* happen before any of the next payout, so the audit entries of each payout
\* are contiguous in the run's log.
C29_PayoutsOneAfterAnother ==
    /\ [](C29_OneAtATime /\ C29_CommittedLogGrouped)
    /\ [][C29_OnlyThePayoutAtHand]_vars

\* The first run is committed after a retried provider call: its seven
\* entries are the start, two for each eligible recipient, one for the
\* recipient without an account, and the completion.
C29_Witness ==
    LET k1 == PayoutId("LIQ001", "INV001")
        k2 == PayoutId("LIQ001", "INV010")
        k3 == PayoutId("LIQ001", "INV060")
    IN  /\ Committed = {1}
        /\ Len(db.audit) = 7
        /\ [n \in 1..7 |-> db.audit[n].payout_id] = <<NoPayoutId, k1, k1, k2, k2, k3, NoPayoutId>>
        /\ db.audit[3].action = "payment_failed_retries_exhausted"
        /\ db.audit[5].action = "payment_created"

\* C30: at the completion of every run, for every payout of the event:
\* status completed implies payment_order_id is set, status failed implies
\* payment_order_id is null, and a set payment_order_id implies status
\* completed or skipped.
C30_StatusAndOrderIdAgree ==
    \A k \in DOMAIN db.payouts :
        LET p == db.payouts[k] IN
        /\ p.status = "completed" => p.payment_order_id # NoOrder
        /\ p.status = "failed" => p.payment_order_id = NoOrder
        /\ p.payment_order_id # NoOrder => p.status \in {"completed", "skipped"}

\* After two runs the event holds a payout that is skipped with the order
\* of the first run, one completed in the second run and none failed; the
\* second recipient had failed in the first run.
C30_Witness ==
    LET k1 == PayoutId("LIQ001", "INV001")
        k2 == PayoutId("LIQ001", "INV010")
    IN  /\ Committed = {1, 2}
        /\ db.runs[1].failed_count = 1
        /\ db.payouts[k1].status = "skipped" /\ db.payouts[k1].payment_order_id # NoOrder
        /\ db.payouts[k2].status = "completed" /\ db.payouts[k2].payment_order_id # NoOrder
        /\ db.payouts[k2].run_id = 2

\* A payout carries a skip reason exactly when it is skipped.
ReasonIffSkipped(p) == (p.skip_reason # None) <=> (p.status = "skipped")

\* C31: at the completion of every run, a payout has a non-null skip_reason
\* exactly when its status is skipped; after any sequence of runs no payout
\* is completed or failed while carrying a skip reason left by an earlier
\* run.  The same holds of the payouts a run holds while it is in flight.
C31_SkipReasonIffSkipped ==
    /\ \A k \in DOMAIN db.payouts :
          /\ ReasonIffSkipped(db.payouts[k])
          /\ db.payouts[k].skip_reason # None => db.payouts[k].skip_reason \in SkipReason
    /\ \A r \in Runs : \A i \in DOMAIN sess[r].payouts : ReasonIffSkipped(sess[r].payouts[i])

\* After two runs: the recipient without an account is skipped for that
\* reason, the recipient paid in the first run is skipped for the existing
\* order, and the recipient who failed in the first run is completed with
\* no skip reason.
C31_Witness ==
    LET k1 == PayoutId("LIQ001", "INV001")
        k2 == PayoutId("LIQ001", "INV010")
        k3 == PayoutId("LIQ001", "INV060")
    IN  /\ Committed = {1, 2}
        /\ db.runs[1].failed_count = 1 /\ db.runs[2].created_count = 1
        /\ db.payouts[k1].status = "skipped" /\ db.payouts[k1].skip_reason = "existing_payment_order"
        /\ db.payouts[k2].status = "completed" /\ db.payouts[k2].skip_reason = None
        /\ db.payouts[k3].status = "skipped" /\ db.payouts[k3].skip_reason = "missing_external_account"

\* The statuses a processed payout ends with.
Outcomes == {"completed", "failed", "skipped"}

\* No payout, stored or held by a run, has the status eligible.
C32_NeverEligible ==
    /\ \A k \in DOMAIN db.payouts : db.payouts[k].status # "eligible"
    /\ \A r \in Runs : \A i \in DOMAIN sess[r].payouts :
          sess[r].payouts[i].status \in PayoutStatus \ {"eligible"}

\* The commit of a run that ends completed stores a payout at an outcome
\* for every recipient the run loaded.
C32_AllAtAnOutcome ==
    \A r \in Runs :
        (r \notin DOMAIN db.runs /\ r \in DOMAIN db'.runs /\ db'.runs[r].status = "completed") =>
            /\ Len(sess[r].list) = Len(db.investors)
            /\ \A n \in 1..Len(sess[r].list) :
                  LET k == PayoutId(sess[r].event, sess[r].list[n]) IN
                  /\ k \in DOMAIN db'.payouts
                  /\ db'.payouts[k].status \in Outcomes

\* C32: when a run ends completed, the payout of every recipient loaded by
\* that run has status completed, failed or skipped: none is left pending
\* or processing, and the status eligible is never assigned by any
\* operation.
C32_EveryPayoutAtAnOutcome ==
    /\ []C32_NeverEligible
    /\ [][C32_AllAtAnOutcome]_vars

\* The first run is committed completed with one payout completed, one
\* failed and one skipped.
C32_Witness ==
    /\ Committed = {1} /\ db.runs[1].status = "completed"
    /\ {db.payouts[k].status : k \in DOMAIN db.payouts} = Outcomes
    /\ Cardinality(DOMAIN db.payouts) = 3

\* The number of consecutive waits the doubling sequence is followed for.
MaxWaits == 10

\* An error carries a provider-suggested wait hint.
HasHint(e) == e.cls = "RateLimitError" /\ e.retry_after # NoHint

\* The computed delay after n waits (lines 67 and 91).
RECURSIVE DelayAfter(_)
DelayAfter(n) == IF n = 0 THEN BASE_DELAY ELSE next_delay(DelayAfter(n - 1))

\* The waits without a hint, one after the other: 1, 2, 4, 8, 16, then 30.
C33_Sequence ==
    /\ \A i \in 1..MaxWaits :
          sleep_for(DelayAfter(i - 1), ProviderError(503, TRUE)) = Min(2^(i - 1), 30)
    /\ [i \in 1..6 |-> sleep_for(DelayAfter(i - 1), RateLimitError(NoHint))] = <<1, 2, 4, 8, 16, 30>>
    /\ \A i \in 7..MaxWaits : sleep_for(DelayAfter(i - 1), ProviderError(503, TRUE)) = 30

\* C33: when no wait hint is present, the wait of with_retry after the i-th
\* consecutive retriable failure (i counted from 1) is min(2^(i-1), 30) time
\* units: 1, 2, 4, 8, 16, then 30 for every later wait.  In a run the i-th
\* failure is the one of attempt i - 1.
C33_ExponentialBackoff ==
    /\ C33_Sequence
    /\ \A r \in Runs :
          (sess[r].pc = "sleeping" /\ ~HasHint(sess[r].last_error)) =>
              sess[r].sleep_for = Min(2^(sess[r].attempt), 30)

\* The fifth wait of a provider call that failed five times with a
\* retriable error that carries no hint: 16 time units.
C33_Witness ==
    \E r \in Runs :
        /\ sess[r].pc = "sleeping" /\ sess[r].attempt = 4
        /\ sess[r].last_error = ProviderError(503, TRUE)
        /\ sess[r].sleep_for = 16 /\ sess[r].delay = 16

\* C34 as stated: when a retriable error carries a provider-suggested wait
\* hint h, the wait that follows it is min(h, 30) instead of the computed
\* delay, for every value of h; the hint applies to that one wait only, and
\* later waits continue the doubling sequence as if no hint had been given.
C34_AsStated ==
    \A r \in Runs :
        /\ (sess[r].pc = "sleeping" /\ HasHint(sess[r].last_error)) =>
               sess[r].sleep_for = Min(sess[r].last_error.retry_after, 30)
        /\ sess[r].pc \in {"calling", "sleeping"} =>
               sess[r].delay = Min(2^(sess[r].attempt), 30)

\* The part of C34 the retry wrapper keeps: a hint that is not zero gives the
\* wait min(h, 30), and the computed delay doubles whatever the hints were.
C34_NonZeroHintUsed ==
    \A r \in Runs :
        /\ (sess[r].pc = "sleeping" /\ HasHint(sess[r].last_error)
               /\ sess[r].last_error.retry_after # 0) =>
               sess[r].sleep_for = Min(sess[r].last_error.retry_after, 30)
        /\ sess[r].pc \in {"calling", "sleeping"} =>
               sess[r].delay = Min(2^(sess[r].attempt), 30)

\* A hint of zero is followed by the computed delay.
C34_ZeroHintIgnored ==
    \E r \in Runs :
        /\ sess[r].pc = "sleeping" /\ sess[r].last_error = RateLimitError(0)
        /\ sess[r].sleep_for = sess[r].delay /\ sess[r].sleep_for > 0

\* The invocations with_retry has made for the payout at hand are at most
\* max_retries + 1, and a sleep follows an invocation that failed and is not
\* the last one allowed.
C35_BoundedInvocations ==
    \A r \in Runs :
        /\ sess[r].invocations <= MAX_RETRIES + 1
        /\ sess[r].pc = "sleeping" =>
              /\ sess[r].invocations = sess[r].attempt + 1
              /\ sess[r].attempt < MAX_RETRIES
              /\ Retriable(sess[r].last_error)

\* A sleep is followed by an invocation, and the failure of the last
\* invocation allowed is followed by no sleep.
C35_SleepsBetweenInvocations ==
    \A r \in Runs :
        LET s == sess[r]
            t == sess'[r]
        IN  /\ (s.pc = "sleeping" /\ t # s) => (t.pc = "calling" /\ t.attempt = s.attempt + 1)
            /\ (s.pc = "calling" /\ s.attempt = MAX_RETRIES /\ t # s) =>
                   (t.pc = "processing" /\ t.invocations = MAX_RETRIES + 1)
            /\ t.pc = "sleeping" => (s.pc = "calling" /\ t.invocations = s.invocations + 1)

\* C35: with_retry terminates for every behaviour of the operation: it
\* invokes the operation at most max_retries + 1 times (so a run makes at
\* most 6 provider calls per payout), it sleeps only between two
\* invocations, and it does not sleep after the last failed invocation.
C35_RetryTerminates ==
    /\ []C35_BoundedInvocations
    /\ [][C35_SleepsBetweenInvocations]_vars
    /\ \A r \in Runs : AtProvider(r) ~> ~AtProvider(r)

\* The sixth invocation for a payout has failed with a retriable error: the
\* payout is failed and the run has moved on without a sleep.
C35_Witness ==
    \E r \in Runs :
        /\ sess[r].pc = "processing" /\ sess[r].idx = 2
        /\ sess[r].idx > Len(sess[r].list)
        /\ sess[r].invocations = MAX_RETRIES + 1 /\ sess[r].attempt = MAX_RETRIES
        /\ sess[r].last_error = RateLimitError(NoHint)
        /\ sess[r].sleep_for = 0
        /\ Previous(sess[r]).status = "failed"

\* Every stored Run is at an end: completed or failed, with its completion
\* timestamp; an invocation that has returned has its Run stored.
C36_StoredRunsAreTerminal ==
    /\ \A r \in Committed :
          db.runs[r].status \in {"completed", "failed"} /\ db.runs[r].completed_at
    /\ \A r \in Runs : sess[r].pc = "done" => r \in Committed

\* A step stores at most one new Run, the one of the invocation that
\* returns with the step, and leaves every stored Run as it is.
C36_OneRunPerInvocation ==
    /\ \A q \in Committed : q \in DOMAIN db'.runs /\ db'.runs[q] = db.runs[q]
    /\ \A r \in DOMAIN db'.runs \ Committed :
          /\ DOMAIN db'.runs = Committed \cup {r}
          /\ Active(r) /\ sess'[r].pc = "done"
          /\ db'.runs[r].liquidation_event_id = sess[r].event
    /\ \A r \in Runs : (Active(r) /\ sess'[r].pc = "done") => r \in DOMAIN db'.runs \ Committed

\* C36: each execute_run invocation inserts exactly one new Run row and
\* changes no earlier Run row; once a Run's status is completed or failed,
\* its status, counts, skip breakdown and completion timestamp never change,
\* also when the same event is run again.
C36_RunsAreNeverRewritten ==
    /\ []C36_StoredRunsAreTerminal
    /\ [][C36_OneRunPerInvocation]_vars

\* The event has been run twice: the first Run still holds its two created
\* payments, the second Run created none and skipped all three payouts.
C36_Witness ==
    /\ Committed = {1, 2}
    /\ db.runs[1].liquidation_event_id = "LIQ001" /\ db.runs[2].liquidation_event_id = "LIQ001"
    /\ db.runs[1].created_count = 2 /\ db.runs[1].skipped_count = 1
    /\ db.runs[2].created_count = 0 /\ db.runs[2].skipped_count = 3
    /\ db.runs[1].status = "completed" /\ db.runs[2].status = "completed"

\* The sum of the counts a run's skip_breakdown holds for a set of reasons.
RECURSIVE SumOfSkipCounts(_, _)
SumOfSkipCounts(run, reasons) ==
    IF reasons = {} THEN 0
    ELSE LET x == CHOOSE y \in reasons : TRUE
         IN  SkipCount(run, x) + SumOfSkipCounts(run, reasons \ {x})

\* The payouts a session has skipped with a reason.
SkippedFor(s, reason) ==
    {i \in DOMAIN s.payouts : /\ "eligibility_failed" \in LoggedFor(s, PayoutId(s.event, i))
                              /\ s.payouts[i].skip_reason = reason}

\* The skip_breakdown of a stored completed run holds positive counts of
\* skip reasons that sum to skipped_count, and is null exactly when
\* skipped_count is 0.
C37_BreakdownSumsUp ==
    \A r \in Committed :
        db.runs[r].status = "completed" =>
           /\ (db.runs[r].skip_breakdown = {}) <=> (db.runs[r].skipped_count = 0)
           /\ \A c \in db.runs[r].skip_breakdown :
                 DOMAIN c \subseteq SkipReason /\ \A x \in DOMAIN c : c[x] > 0
           /\ SumOfSkipCounts(db.runs[r], SkipReason) = db.runs[r].skipped_count

\* The commit of a run stores, for each reason, the number of payouts the
\* run skipped with it.
C37_BreakdownCountsSkips ==
    \A r \in DOMAIN db'.runs \ Committed :
        db'.runs[r].status = "completed" =>
           \A reason \in SkipReason :
               SkipCount(db'.runs[r], reason) = Cardinality(SkippedFor(sess[r], reason))

\* C37: for every completed run, skip_breakdown maps each skip reason to
\* the number of payouts that this run skipped with that reason, its values
\* sum to skipped_count, and it is null exactly when skipped_count is 0.
C37_SkipBreakdown ==
    /\ []C37_BreakdownSumsUp
    /\ [][C37_BreakdownCountsSkips]_vars

\* The second run on the event skipped the two payouts the first run had
\* completed and the recipient without an account: two reasons, counts 2
\* and 1, for a skipped_count of 3.  The first run skipped one payout.
C37_Witness ==
    /\ Committed = {1, 2} /\ db.runs[2].status = "completed"
    /\ db.runs[1].skipped_count = 1 /\ db.runs[1].skip_breakdown # {}
    /\ db.runs[2].skipped_count = 3
    /\ SkipCount(db.runs[2], "existing_payment_order") = 2
    /\ SkipCount(db.runs[2], "missing_external_account") = 1

\* The fields a Payout takes from the event and the recipient when it is
\* created.
Snapshot(p) ==
    <<p.amount, p.currency, p.country, p.payment_method, p.has_aba_routing, p.external_account_id>>

\* The skip reasons that name missing or invalid data.
DataReasons == {"invalid_method", "invalid_amount", "missing_external_account", "missing_country"}

\* No step changes the snapshot of a stored payout or of a payout a run
\* holds.
C38_SnapshotKept ==
    /\ \A k \in DOMAIN db.payouts :
          k \in DOMAIN db'.payouts /\ Snapshot(db'.payouts[k]) = Snapshot(db.payouts[k])
    /\ \A r \in Runs : \A i \in DOMAIN sess[r].payouts \cap DOMAIN sess'[r].payouts :
          Snapshot(sess'[r].payouts[i]) = Snapshot(sess[r].payouts[i])
    /\ \A r \in Runs : \A i \in DOMAIN sess[r].loaded \cap DOMAIN sess'[r].payouts :
          Snapshot(sess'[r].payouts[i]) = Snapshot(sess[r].loaded[i])

\* A payout skipped for missing or invalid data stays skipped with that
\* reason, and every later run on its event writes eligibility_failed for it.
C38_SkippedAgain ==
    \A k \in DOMAIN db.payouts :
        (db.payouts[k].status = "skipped" /\ db.payouts[k].skip_reason \in DataReasons) =>
           /\ db'.payouts[k].status = "skipped"
           /\ db'.payouts[k].skip_reason = db.payouts[k].skip_reason
           /\ CommitsRunOn(k[1]) =>
                 {db'.audit[n].action : n \in NewAuditOfPayout(k)} = {"eligibility_failed"}

\* C38: after a Payout is created, no run changes its amount, currency,
\* country, payment_method, has_aba_routing or external_account_id, and a
\* later change of the recipient's record is not copied onto it; a payout
\* skipped for missing or invalid data is therefore skipped again with the
\* same reason in every later run.
C38_SnapshotNeverRefreshed ==
    [][C38_SnapshotKept /\ C38_SkippedAgain]_vars

\* The recipient got a bank account after the payout was created without
\* one; a later run has found the payout stored and skipped it again for the
\* missing account.
C38_Witness ==
    \E r \in Runs :
        /\ "INV060" \in db.changed
        /\ sess[r].pc = "processing" /\ sess[r].idx > Len(sess[r].list)
        /\ "INV060" \in DOMAIN sess[r].loaded
        /\ sess[r].payouts["INV060"].external_account_id = None
        /\ sess[r].payouts["INV060"].status = "skipped"
        /\ sess[r].payouts["INV060"].skip_reason = "missing_external_account"
        /\ InvestorRow("INV060").external_account_id = "ext_new_001"

Abs(x) == IF x < 0 THEN -x ELSE x

\* The payouts the step that ensures the payouts creates.
Created(r) == DOMAIN sess'[r].payouts \ DOMAIN sess[r].loaded

\* C39: when a run creates a Payout, its status is pending, its currency is
\* USD and its amount is the event total divided by the number of all
\* recipients loaded by that run, rounded to 2 decimals (the whole cent
\* nearest to the quotient), so all payouts created by one run have the
\* same amount; the sum of these amounts may differ from the event total by
\* rounding drift only (half a cent for each recipient at most).
C39_EvenShares ==
    [][\A r \in Runs :
          (sess[r].pc = "payouts_loaded" /\ sess'[r].pc = "processing") =>
             LET n == Len(sess[r].list)
                 total == LiquidationEvents[sess[r].event].total_amount
             IN  /\ \A i \in Created(r) :
                       LET p == sess'[r].payouts[i] IN
                       /\ p.status = "pending" /\ p.currency = "USD"
                       /\ p.run_id = r /\ p.payment_order_id = NoOrder
                       /\ 2 * Abs(p.amount * n - total) <= n
                 /\ \A i, j \in Created(r) :
                       sess'[r].payouts[i].amount = sess'[r].payouts[j].amount]_vars

\* A run has created the payouts of three recipients: each is pending with
\* 266,666.67, and the three amounts sum to one cent more than the event
\* total of 800,000.00.
C39_Witness ==
    \E r \in Runs :
        /\ sess[r].pc = "processing" /\ sess[r].idx = 1
        /\ DOMAIN sess[r].loaded = {} /\ Len(sess[r].list) = 3
        /\ \A i \in DOMAIN sess[r].payouts :
              sess[r].payouts[i].status = "pending" /\ sess[r].payouts[i].amount = 26666667
        /\ 3 * 26666667 = LiquidationEvents[sess[r].event].total_amount + 1

\* C40: the order in which a run processes its payouts is deterministic:
\* two invocations that have loaded the same recipients and the same stored
\* payouts of the same event hold the payouts in the same order (and so
\* write the same sequence of audit actions).
C40_AsStated ==
    \A r, q \in Runs :
        (/\ sess[r].pc = "payouts_loaded" /\ sess[q].pc = "payouts_loaded"
         /\ sess[r].event = sess[q].event
         /\ sess[r].loaded = sess[q].loaded
         /\ {sess[r].list[k] : k \in 1..Len(sess[r].list)}
              = {sess[q].list[k] : k \in 1..Len(sess[q].list)})
        => sess[r].list = sess[q].list

====
